---- MODULE Spec2Model ----
(***************************************************************************)
(* Model of detect-in-app-browser: the TypeScript InAppBrowserDetector     *)
(* (lib/InAppBrowserDetector.ts with utils/browserDetection.ts and         *)
(* constants.ts).  The detector reads the ambient page (navigator, window, *)
(* document, screen); the model keeps that page as the state and has one   *)
(* action per public method, which records the value the method returns.   *)
(***************************************************************************)
EXTENDS Integers, Sequences, FiniteSets, TLC

VARIABLES
  host,                \* which globals exist: "browser", "worker", "node"
  userAgent,           \* navigator.userAgent, case preserved
  braveHook,           \* typeof navigator.brave.isBrave === 'function'
  referrer,            \* document.referrer
  outerWidth,          \* window.outerWidth: {} when undefined, {n} otherwise
  innerWidth,          \* window.innerWidth
  outerHeight,         \* window.outerHeight
  innerHeight,         \* window.innerHeight
  screenWidth,         \* screen.width
  displayMode,         \* matchMedia('(display-mode: standalone)'): "absent", "standalone", "browser"
  reactNativeWebView,  \* window.ReactNativeWebView is truthy
  dom,                 \* textContent of the diagnostic elements of the page
  last,                \* the last call and the value it returned
  memo,                \* the calls remembered: <<user agent, referrer, method or probe, result>>
  controller,          \* the AppController of the page: "none", "js" or "ts"
  isInApp,             \* AppController.isInApp
  browserName,         \* AppController.browserName
  statusElement,       \* the document has the #detection-status element
  banners,             \* number of .in-app-warning elements in the document
  timers,              \* pending setTimeout(() => this.updateDetectionUI(), 100)
  copy,                \* the copyToClipboard call: where it is, what it tried, what it returned
  button               \* the copy button: textContent, style.background, pending restore timers

vars == <<host, userAgent, braveHook, referrer, outerWidth, innerWidth,
          outerHeight, innerHeight, screenWidth, displayMode,
          reactNativeWebView, dom, last, memo, controller, isInApp, browserName,
          statusElement, banners, timers, copy, button>>

env == <<host, userAgent, braveHook, referrer, outerWidth, innerWidth,
         outerHeight, innerHeight, screenWidth, displayMode,
         reactNativeWebView>>

\* the AppController of the demo page and what it puts in the document
app == <<controller, isInApp, browserName, statusElement, banners, timers>>

\* the copy button of the demo page and the copy in progress
clip == <<copy, button>>

(***************************************************************************)
(* examples/js/utils/clipboard.ts: copyToClipboard tries the Clipboard     *)
(* API, then document.execCommand('copy'), then window.prompt.  The call   *)
(* is suspended only while navigator.clipboard.writeText is pending; the   *)
(* promise of execCommandCopy is resolved when it is awaited, so attempts  *)
(* 2 and 3 run without any timer in between.  copy.tried and               *)
(* copy.succeeded keep the methods the call attempted and the ones that    *)
(* succeeded; copy.result is the promise: "pending", "true" or "false".    *)
(***************************************************************************)
MaxCopies == 3

OriginalText == "Copy User Agent"
OriginalBackground == ""

NoCopy == [pc |-> "idle", element |-> "null", tried |-> <<>>, succeeded |-> {},
           result |-> "none"]
NoButton == [text |-> OriginalText, background |-> OriginalBackground,
             timers |-> <<>>, copies |-> 0]

\* showCopyFeedback(element, isManual): the text and the background the
\* element has now go into the closure of the timer
showCopyFeedback(b, element, isManual) ==
  IF element = "null" THEN b
  ELSE [b EXCEPT !.text = IF isManual THEN "Shown to Copy" ELSE "Copied!",
                 !.background = "#28a745",
                 !.timers = Append(@, [originalText |-> b.text,
                                       originalBackground |-> b.background])]

\* execCommandCopy resolves with what document.execCommand('copy') returned,
\* and with false when anything in it threw
execCommandCopy(outcome) == outcome = "true"

\* tryPromptFallback: no feedback when window.prompt threw
tryPromptFallback(b, element, promptOutcome) ==
  IF promptOutcome = "throws" THEN b ELSE showCopyFeedback(b, element, TRUE)

\* attempt 3 is made although attempt 2 succeeded
fallbacks_NoReturn(c, b, execOutcome, promptOutcome) ==
  LET success == execCommandCopy(execOutcome)
      fed == IF success THEN showCopyFeedback(b, c.element, FALSE) ELSE b
  IN [copy |-> [c EXCEPT !.pc = "idle",
                         !.tried = @ \o <<"execCommand", "prompt">>,
                         !.succeeded = IF success THEN @ \cup {"execCommand"} ELSE @,
                         !.result = "false"],
      button |-> tryPromptFallback(fed, c.element, promptOutcome)]

\* attempts 2 and 3 of copyToClipboard (lines 28-41)
fallbacks(c, b, execOutcome, promptOutcome) ==
  IF execCommandCopy(execOutcome)
    THEN [copy |-> [c EXCEPT !.pc = "idle",
                             !.tried = Append(@, "execCommand"),
                             !.succeeded = @ \cup {"execCommand"},
                             !.result = "true"],
          button |-> showCopyFeedback(b, c.element, FALSE)]
  ELSE [copy |-> [c EXCEPT !.pc = "idle",
                           !.tried = @ \o <<"execCommand", "prompt">>,
                           !.result = "false"],
        button |-> tryPromptFallback(b, c.element, promptOutcome)]

(***************************************************************************)
(* The pages the detector runs in: the user agents, referrers and window   *)
(* geometries of the model.                                                *)
(***************************************************************************)
MaxAppTokens == 1

Platforms ==
  {"Linux; Android 13", "iPhone; CPU iPhone OS 17_0", "Windows NT 10.0"}
PlatformFlags == {"", "; wv"}
Engines ==
  {"", " Chrome/115.0 Mobile Safari/537.36",
   " Version/4.0 Chrome/115.0 Mobile Safari/537.36",
   " Chrome/115.0 Version/4.0",
   " Version/4.0",
   " Version/17.0 Mobile Safari/604.1",
   " Firefox/118.0",
   " Chrome/115.0 Mobile Safari/537.36 Edg/115.0"}
AppTokens == {" GSA/15.0", " FBAN/FB4A"}

\* the sequences of at most n different app tokens, written one after the other
RECURSIVE TokenSeqs(_)
TokenSeqs(n) ==
  IF n = 0 THEN {<<>>}
  ELSE TokenSeqs(n - 1) \cup
       UNION {{Append(q, t) : t \in {x \in AppTokens : \A k \in DOMAIN q : q[k] # x}} :
                q \in TokenSeqs(n - 1)}

RECURSIVE Join(_)
Join(q) == IF q = <<>> THEN "" ELSE Head(q) \o Join(Tail(q))

AppSuffixes(n) == {Join(q) : q \in TokenSeqs(n)}

ComposedUserAgents ==
  {"Mozilla/5.0 (" \o p \o f \o ")" \o e \o a :
     p \in Platforms, f \in PlatformFlags, e \in Engines,
     a \in AppSuffixes(MaxAppTokens)}

\* the other regular browsers, alone and inside a WebView that names an app
OtherBrowserTokens == {" OPR/76.0", " DuckDuckGo/5", " Brave/1.5", " Vivaldi/6.1"}
OtherBrowserUserAgents ==
  {"Mozilla/5.0 (Linux; Android 13" \o f \o t :
     f \in {") Chrome/115.0 Mobile Safari/537.36",
            "; wv) Chrome/115.0 Mobile Safari/537.36 FBAN/FB4A"},
     t \in OtherBrowserTokens}

\* apps the detector knows by a token and getBrowserName has no label for
UnlabelledAppUserAgents ==
  {"Mozilla/5.0 (Linux; Android 13) Pinterest/1.0",
   "Mozilla/5.0 (iPhone; CPU iPhone OS 17_0) Slack/23.0"}

UserAgents ==
  ComposedUserAgents \cup OtherBrowserUserAgents \cup UnlabelledAppUserAgents

Referrers ==
  {"", "android-app://com.google.android.gm", "android-app://com.facebook.katana",
   "https://mail.google.com/"}

\* window and screen sizes: {} is undefined, {n} is the number n
Geometries ==
  {[ow |-> {}, iw |-> {}, oh |-> {}, ih |-> {}, sw |-> {}],
   [ow |-> {360}, iw |-> {360}, oh |-> {640}, ih |-> {640}, sw |-> {}],
   [ow |-> {390}, iw |-> {360}, oh |-> {670}, ih |-> {640}, sw |-> {440}],
   [ow |-> {391}, iw |-> {360}, oh |-> {640}, ih |-> {640}, sw |-> {441}],
   [ow |-> {360}, iw |-> {360}, oh |-> {671}, ih |-> {640}, sw |-> {360}],
   [ow |-> {360}, iw |-> {360}, oh |-> {640}, ih |-> {640}, sw |-> {411}]}
DisplayModes == {"absent", "standalone", "browser"}

(***************************************************************************)
(* Strings.  A JavaScript string is a TLA+ string; the operators below are *)
(* String.prototype.toLowerCase, includes, indexOf and startsWith.  The    *)
(* lower-casing and the searches of the model's strings are tabulated once *)
(* (LowerTable, OccurrenceTable); any other string is computed directly.   *)
(***************************************************************************)
UpperChars == <<"A","B","C","D","E","F","G","H","I","J","K","L","M",
                "N","O","P","Q","R","S","T","U","V","W","X","Y","Z">>
LowerChars == <<"a","b","c","d","e","f","g","h","i","j","k","l","m",
                "n","o","p","q","r","s","t","u","v","w","x","y","z">>
DigitChars == {"0","1","2","3","4","5","6","7","8","9"}

CharAt(s, i) == SubSeq(s, i, i)

toLowerChar(c) ==
  IF \E k \in 1..26 : UpperChars[k] = c
    THEN LowerChars[CHOOSE k \in 1..26 : UpperChars[k] = c]
    ELSE c

RECURSIVE toLowerFrom(_, _)
toLowerFrom(s, i) ==
  IF i > Len(s) THEN "" ELSE toLowerChar(CharAt(s, i)) \o toLowerFrom(s, i + 1)

\* the tokens of the label rules of getBrowserName in the order of the rules,
\* and user agents with one of them, with two neighbours in either order, or
\* with one of them in Chrome or in a WebView
LabelTokens ==
  <<" GSA/15.0", " FBAN/FB4A", " FBAV/400", " Twitter", " Instagram",
    " LinkedInApp", " Snapchat", " WhatsApp", " Line/13", " Discord",
    " Telegram", " Edg/115.0", " DuckDuckGo/5", " Brave/1.5", " CriOS/115",
    " Chrome/115.0", " Firefox/118.0", " Safari/604.1", " OPR/76.0",
    " Vivaldi/6.1">>
LabelTokenPairs ==
  {<<"", "">>}
  \cup {<<LabelTokens[i], "">> : i \in DOMAIN LabelTokens}
  \cup {<<LabelTokens[i], LabelTokens[i + 1]>> : i \in 1..(Len(LabelTokens) - 1)}
  \cup {<<LabelTokens[i + 1], LabelTokens[i]>> : i \in 1..(Len(LabelTokens) - 1)}
  \cup {<<" Chrome/115.0", LabelTokens[i]>> : i \in DOMAIN LabelTokens}
LabelUserAgents ==
  {"Mozilla/5.0 (Linux; Android 13" \o f \o ")" \o q[1] \o q[2] :
     f \in {"", "; wv"}, q \in LabelTokenPairs}

PageStrings == UserAgents \cup LabelUserAgents \cup Referrers \cup {""}
SearchedStrings == PageStrings \cup {toLowerFrom(s, 1) : s \in PageStrings}
LowerTable == [s \in SearchedStrings |-> toLowerFrom(s, 1)]

toLowerCase(s) == IF s \in SearchedStrings THEN LowerTable[s] ELSE toLowerFrom(s, 1)

\* the literals the detector searches for
Literals ==
  {"android", "webos", "iphone", "ipad", "ipod", "blackberry", "iemobile",
   "opera mini", "safari", "chrome", "crios", "wv", "gsa/", "edg", "firefox",
   "opera", "opr/", "duckduckgo", "ddg/", "brave", "vivaldi",
   "android-app://com.google.android.gm", "mail.google.com", "version/",
   "chrome/", "fban", "fbav", "twitter", "linkedinapp", "instagram", "line",
   "whatsapp", "snapchat", "pinterest", "slack", "discord", "telegram",
   "viber", "wechat", "qq"}

\* positions (1-based) at which p occurs in s
Search(s, p) ==
  {i \in 1..(Len(s) - Len(p) + 1) : SubSeq(s, i, i + Len(p) - 1) = p}

OccurrenceTable == [s \in SearchedStrings |-> [p \in Literals |-> Search(s, p)]]

Occurrences(s, p) ==
  IF s \in SearchedStrings /\ p \in Literals THEN OccurrenceTable[s][p]
  ELSE Search(s, p)

includes(s, p) == Occurrences(s, p) # {}

\* String.prototype.indexOf: 0-based index of the first occurrence, or -1
indexOf(s, p) ==
  IF Occurrences(s, p) = {} THEN 0 - 1
  ELSE (CHOOSE i \in Occurrences(s, p) : \A j \in Occurrences(s, p) : i <= j) - 1

startsWith(s, p) == Len(s) >= Len(p) /\ SubSeq(s, 1, Len(p)) = p

\* \w of a regular expression
IsWordChar(c) ==
  \/ c \in DigitChars
  \/ c = "_"
  \/ \E k \in 1..26 : c = UpperChars[k] \/ c = LowerChars[k]

\* the regular expression  p[\d.]+  (p literal): p followed by a digit or dot
includesWithVersion(s, p) ==
  \E i \in Occurrences(s, p) :
    /\ i + Len(p) <= Len(s)
    /\ CharAt(s, i + Len(p)) \in DigitChars \cup {"."}

(***************************************************************************)
(* REGEX_PATTERNS of constants.ts.  Every pattern carries the i flag: the  *)
(* test is made on the lower-cased subject.                                *)
(***************************************************************************)
REGEX_MOBILE(s) ==
  LET t == toLowerCase(s) IN
    \/ includes(t, "android") \/ includes(t, "webos") \/ includes(t, "iphone")
    \/ includes(t, "ipad") \/ includes(t, "ipod") \/ includes(t, "blackberry")
    \/ includes(t, "iemobile") \/ includes(t, "opera mini")
REGEX_ANDROID(s) == includes(toLowerCase(s), "android")
REGEX_IOS(s) ==
  LET t == toLowerCase(s) IN
    includes(t, "iphone") \/ includes(t, "ipad") \/ includes(t, "ipod")
REGEX_SAFARI(s) == includes(toLowerCase(s), "safari")
REGEX_CHROME(s) == includes(toLowerCase(s), "chrome")
REGEX_CRIOS(s) == includes(toLowerCase(s), "crios")
REGEX_WV_TOKEN(s) ==
  LET t == toLowerCase(s) IN
    \E i \in Occurrences(t, "wv") :
      /\ (i = 1 \/ ~IsWordChar(CharAt(t, i - 1)))
      /\ (i + 2 > Len(t) \/ ~IsWordChar(CharAt(t, i + 2)))
REGEX_GSA_TOKEN(s) == includes(toLowerCase(s), "gsa/")
REGEX_EDGE(s) == includes(toLowerCase(s), "edg")
REGEX_FIREFOX(s) == includes(toLowerCase(s), "firefox")
REGEX_OPERA(s) ==
  LET t == toLowerCase(s) IN includes(t, "opera") \/ includes(t, "opr/")
REGEX_DUCKDUCKGO(s) ==
  LET t == toLowerCase(s) IN includes(t, "duckduckgo") \/ includes(t, "ddg/")
REGEX_BRAVE(s) == includes(toLowerCase(s), "brave")
REGEX_VIVALDI(s) == includes(toLowerCase(s), "vivaldi")
REGEX_ANDROID_APP_REFERRER(s) == startsWith(toLowerCase(s), "android-app://")
REGEX_GMAIL_REFERRER(s) ==
  LET t == toLowerCase(s) IN
    \/ includes(t, "android-app://com.google.android.gm")
    \/ includes(t, "mail.google.com")
REGEX_VERSION_PATTERN(s) == includesWithVersion(toLowerCase(s), "version/")
REGEX_CHROME_PATTERN(s) == includesWithVersion(toLowerCase(s), "chrome/")

KNOWN_IN_APP_BROWSERS ==
  {"fban", "fbav", "twitter", "linkedinapp", "instagram", "line", "whatsapp",
   "snapchat", "pinterest", "slack", "discord", "telegram", "viber", "wechat",
   "qq", "gsa/"}

OUTER_DIFF == 30
SCREEN_DIFF == 50

(***************************************************************************)
(* utils/browserDetection.ts                                               *)
(***************************************************************************)
isNavigatorAvailable == host \in {"browser", "worker"}
isWindowAvailable == host = "browser"
isDocumentAvailable == host = "browser"

getUserAgent == IF ~isNavigatorAvailable THEN "" ELSE toLowerCase(userAgent)
\* the referrer read back from the diagnostics element of the page
getReferrer_FromDiagnostics ==
  IF ~isDocumentAvailable THEN "" ELSE toLowerCase(dom["doc-referrer"])

getReferrer == IF ~isDocumentAvailable THEN "" ELSE toLowerCase(referrer)

\* the Android pattern used in place of the mobile pattern
isMobileDevice_AndroidOnly(ua) == REGEX_ANDROID(ua)

isMobileDevice(ua) == REGEX_MOBILE(ua)

\* 'Android' searched as user agents write it, in the lower-cased string
isAndroidDevice_CaseSensitive(ua) == includes(ua, "Android")

\* every mobile user agent counts as Android
isAndroidDevice_AnyMobile(ua) == REGEX_MOBILE(ua)

isAndroidDevice(ua) == REGEX_ANDROID(ua)
isIOSDevice(ua) == REGEX_IOS(ua)

\* hasBraveFeature reading a property navigator does not have
hasBraveFeature_Missing == FALSE

hasBraveFeature == IF ~isNavigatorAvailable THEN FALSE ELSE braveHook

hasWebViewToken(ua) == REGEX_WV_TOKEN(ua)

\* the token searched as user agents write it, in the lower-cased string
hasGoogleAppToken_CaseSensitive(ua) == includes(ua, "GSA/")

hasGoogleAppToken(ua) == REGEX_GSA_TOKEN(ua)
isAndroidAppReferrer(ref) == REGEX_ANDROID_APP_REFERRER(ref)

\* the Gmail pattern without its android-app alternative
isGmailReferrer_HostOnly(ref) == includes(toLowerCase(ref), "mail.google.com")

isGmailReferrer(ref) == REGEX_GMAIL_REFERRER(ref)

\* a - b on JavaScript numbers: NaN (here {}) when an operand is undefined
Minus(a, b) == {x - y : x \in a, y \in b}
\* d > t: false when d is NaN
GreaterThan(d, t) == \E x \in d : x > t

\* a difference of OUTER_DIFF counts as browser UI
hasBrowserUI_AtLeast ==
  IF ~isWindowAvailable THEN FALSE
  ELSE LET outerDiffW == Minus(outerWidth, innerWidth)
           outerDiffH == Minus(outerHeight, innerHeight)
       IN GreaterThan(outerDiffW, OUTER_DIFF - 1) \/ GreaterThan(outerDiffH, OUTER_DIFF - 1)

hasBrowserUI ==
  IF ~isWindowAvailable THEN FALSE
  ELSE LET outerDiffW == Minus(outerWidth, innerWidth)
           outerDiffH == Minus(outerHeight, innerHeight)
       IN GreaterThan(outerDiffW, OUTER_DIFF) \/ GreaterThan(outerDiffH, OUTER_DIFF)

hasNormalScreenLayout ==
  IF ~isWindowAvailable \/ screenWidth = {} THEN FALSE
  ELSE LET screenDiff == Minus(screenWidth, outerWidth)
       IN GreaterThan(screenDiff, SCREEN_DIFF)

\* a media query that never matches
isStandaloneMode_NeverMatches == FALSE

isStandaloneMode ==
  IF ~isWindowAvailable THEN FALSE
  ELSE displayMode # "absent" /\ displayMode = "standalone"

\* isRegular without isEdge
isKnownRegularBrowser_NoEdge(ua) ==
  LET isSafari == /\ REGEX_SAFARI(ua) /\ ~REGEX_CHROME(ua) /\ ~REGEX_CRIOS(ua)
                  /\ ~REGEX_WV_TOKEN(ua) /\ ~REGEX_GSA_TOKEN(ua)
      isEdge == REGEX_EDGE(ua)
      isFirefox == REGEX_FIREFOX(ua)
      isOpera == REGEX_OPERA(ua)
      isDuckDuckGo == REGEX_DUCKDUCKGO(ua)
      isBrave == REGEX_BRAVE(ua) \/ hasBraveFeature
      isVivaldi == REGEX_VIVALDI(ua)
  IN [isRegular |-> isSafari \/ isFirefox \/ isOpera \/ isDuckDuckGo
                      \/ isBrave \/ isVivaldi,
      isSafari |-> isSafari, isEdge |-> isEdge, isFirefox |-> isFirefox,
      isOpera |-> isOpera, isDuckDuckGo |-> isDuckDuckGo, isBrave |-> isBrave,
      isVivaldi |-> isVivaldi]

\* Firefox searched as 'Firefox' in the lower-cased user agent
isKnownRegularBrowser_FirefoxCaseSensitive(ua) ==
  LET isSafari == /\ REGEX_SAFARI(ua) /\ ~REGEX_CHROME(ua) /\ ~REGEX_CRIOS(ua)
                  /\ ~REGEX_WV_TOKEN(ua) /\ ~REGEX_GSA_TOKEN(ua)
      isEdge == REGEX_EDGE(ua)
      isFirefox == includes(ua, "Firefox")
      isOpera == REGEX_OPERA(ua)
      isDuckDuckGo == REGEX_DUCKDUCKGO(ua)
      isBrave == REGEX_BRAVE(ua) \/ hasBraveFeature
      isVivaldi == REGEX_VIVALDI(ua)
  IN [isRegular |-> isSafari \/ isEdge \/ isFirefox \/ isOpera \/ isDuckDuckGo
                      \/ isBrave \/ isVivaldi,
      isSafari |-> isSafari, isEdge |-> isEdge, isFirefox |-> isFirefox,
      isOpera |-> isOpera, isDuckDuckGo |-> isDuckDuckGo, isBrave |-> isBrave,
      isVivaldi |-> isVivaldi]

isKnownRegularBrowser(ua) ==
  LET isSafari == /\ REGEX_SAFARI(ua) /\ ~REGEX_CHROME(ua) /\ ~REGEX_CRIOS(ua)
                  /\ ~REGEX_WV_TOKEN(ua) /\ ~REGEX_GSA_TOKEN(ua)
      isEdge == REGEX_EDGE(ua)
      isFirefox == REGEX_FIREFOX(ua)
      isOpera == REGEX_OPERA(ua)
      isDuckDuckGo == REGEX_DUCKDUCKGO(ua)
      isBrave == REGEX_BRAVE(ua) \/ hasBraveFeature
      isVivaldi == REGEX_VIVALDI(ua)
  IN [isRegular |-> isSafari \/ isEdge \/ isFirefox \/ isOpera \/ isDuckDuckGo
                      \/ isBrave \/ isVivaldi,
      isSafari |-> isSafari, isEdge |-> isEdge, isFirefox |-> isFirefox,
      isOpera |-> isOpera, isDuckDuckGo |-> isDuckDuckGo, isBrave |-> isBrave,
      isVivaldi |-> isVivaldi]

(***************************************************************************)
(* InAppBrowserDetector                                                    *)
(***************************************************************************)
\* detectWebView taking an Android Chrome without browser UI for a WebView
detectWebView_NoUiIsWebView(ua) ==
  IF ~isWindowAvailable \/ ~isNavigatorAvailable THEN FALSE
  ELSE IF \/ REGEX_DUCKDUCKGO(ua) \/ REGEX_EDGE(ua) \/ REGEX_BRAVE(ua)
          \/ hasBraveFeature \/ REGEX_FIREFOX(ua) \/ REGEX_OPERA(ua)
          \/ REGEX_VIVALDI(ua)
    THEN FALSE
  ELSE IF reactNativeWebView THEN TRUE
  ELSE IF hasWebViewToken(ua) THEN TRUE
  ELSE IF isAndroidDevice(ua) THEN
    LET hasVersionPattern == REGEX_VERSION_PATTERN(ua)
        hasChromePattern == REGEX_CHROME_PATTERN(ua)
        versionIndex == indexOf(ua, "version/")
        chromeIndex == indexOf(ua, "chrome/")
    IN IF /\ hasVersionPattern
          /\ (~hasChromePattern \/ chromeIndex > versionIndex)
          /\ ~REGEX_DUCKDUCKGO(ua) /\ ~REGEX_BRAVE(ua) /\ ~hasBraveFeature
         THEN TRUE
       ELSE IF REGEX_CHROME(ua) THEN
         IF hasBrowserUI \/ hasNormalScreenLayout THEN FALSE
         ELSE IF hasWebViewToken(ua) THEN TRUE
         ELSE IF isStandaloneMode THEN FALSE
         ELSE TRUE
       ELSE FALSE
  ELSE FALSE

\* the React Native bridge is asked before the regular browsers are excluded
detectWebView_BridgeFirst(ua) ==
  IF ~isWindowAvailable \/ ~isNavigatorAvailable THEN FALSE
  ELSE IF reactNativeWebView THEN TRUE
  ELSE IF \/ REGEX_DUCKDUCKGO(ua) \/ REGEX_EDGE(ua) \/ REGEX_BRAVE(ua)
          \/ hasBraveFeature \/ REGEX_FIREFOX(ua) \/ REGEX_OPERA(ua)
          \/ REGEX_VIVALDI(ua)
    THEN FALSE
  ELSE IF reactNativeWebView THEN TRUE
  ELSE IF hasWebViewToken(ua) THEN TRUE
  ELSE IF isAndroidDevice(ua) THEN
    LET hasVersionPattern == REGEX_VERSION_PATTERN(ua)
        hasChromePattern == REGEX_CHROME_PATTERN(ua)
        versionIndex == indexOf(ua, "version/")
        chromeIndex == indexOf(ua, "chrome/")
    IN IF /\ hasVersionPattern
          /\ (~hasChromePattern \/ chromeIndex > versionIndex)
          /\ ~REGEX_DUCKDUCKGO(ua) /\ ~REGEX_BRAVE(ua) /\ ~hasBraveFeature
         THEN TRUE
       ELSE IF REGEX_CHROME(ua) THEN
         IF hasBrowserUI \/ hasNormalScreenLayout THEN FALSE
         ELSE IF hasWebViewToken(ua) THEN TRUE
         ELSE IF isStandaloneMode THEN FALSE
         ELSE FALSE
       ELSE FALSE
  ELSE FALSE

\* the ordering test the other way round: Chrome/ before Version/
detectWebView_ChromeFirst(ua) ==
  IF ~isWindowAvailable \/ ~isNavigatorAvailable THEN FALSE
  ELSE IF \/ REGEX_DUCKDUCKGO(ua) \/ REGEX_EDGE(ua) \/ REGEX_BRAVE(ua)
          \/ hasBraveFeature \/ REGEX_FIREFOX(ua) \/ REGEX_OPERA(ua)
          \/ REGEX_VIVALDI(ua)
    THEN FALSE
  ELSE IF reactNativeWebView THEN TRUE
  ELSE IF hasWebViewToken(ua) THEN TRUE
  ELSE IF isAndroidDevice(ua) THEN
    LET hasVersionPattern == REGEX_VERSION_PATTERN(ua)
        hasChromePattern == REGEX_CHROME_PATTERN(ua)
        versionIndex == indexOf(ua, "version/")
        chromeIndex == indexOf(ua, "chrome/")
    IN IF /\ hasVersionPattern
          /\ (~hasChromePattern \/ chromeIndex < versionIndex)
          /\ ~REGEX_DUCKDUCKGO(ua) /\ ~REGEX_BRAVE(ua) /\ ~hasBraveFeature
         THEN TRUE
       ELSE IF REGEX_CHROME(ua) THEN
         IF hasBrowserUI \/ hasNormalScreenLayout THEN FALSE
         ELSE IF hasWebViewToken(ua) THEN TRUE
         ELSE IF isStandaloneMode THEN FALSE
         ELSE FALSE
       ELSE FALSE
  ELSE FALSE

detectWebView(ua) ==
  IF ~isWindowAvailable \/ ~isNavigatorAvailable THEN FALSE
  ELSE IF \/ REGEX_DUCKDUCKGO(ua) \/ REGEX_EDGE(ua) \/ REGEX_BRAVE(ua)
          \/ hasBraveFeature \/ REGEX_FIREFOX(ua) \/ REGEX_OPERA(ua)
          \/ REGEX_VIVALDI(ua)
    THEN FALSE
  ELSE IF reactNativeWebView THEN TRUE
  ELSE IF hasWebViewToken(ua) THEN TRUE
  ELSE IF isAndroidDevice(ua) THEN
    LET hasVersionPattern == REGEX_VERSION_PATTERN(ua)
        hasChromePattern == REGEX_CHROME_PATTERN(ua)
        versionIndex == indexOf(ua, "version/")
        chromeIndex == indexOf(ua, "chrome/")
    IN IF /\ hasVersionPattern
          /\ (~hasChromePattern \/ chromeIndex > versionIndex)
          /\ ~REGEX_DUCKDUCKGO(ua) /\ ~REGEX_BRAVE(ua) /\ ~hasBraveFeature
         THEN TRUE
       ELSE IF REGEX_CHROME(ua) THEN
         IF hasBrowserUI \/ hasNormalScreenLayout THEN FALSE
         ELSE IF hasWebViewToken(ua) THEN TRUE
         ELSE IF isStandaloneMode THEN FALSE
         ELSE FALSE
       ELSE FALSE
  ELSE FALSE

\* the wv token is enough, detectWebView is not asked
detectGmailApp_AnyWv ==
  IF ~isDocumentAvailable \/ ~isNavigatorAvailable THEN FALSE
  ELSE LET ua == getUserAgent
           ref == getReferrer
           hasGmailRef == isGmailReferrer(ref)
           hasGsaToken == hasGoogleAppToken(ua)
           hasWvToken == hasWebViewToken(ua)
       IN IF ~isIOSDevice(ua) /\ ~isAndroidDevice(ua) THEN FALSE
          ELSE IF hasGmailRef \/ hasGsaToken THEN TRUE
          ELSE IF REGEX_SAFARI(ua) /\ ~hasWvToken THEN FALSE
          ELSE IF isAndroidDevice(ua) /\ REGEX_CHROME(ua) /\ hasWvToken
            THEN TRUE
          ELSE FALSE

detectGmailApp ==
  IF ~isDocumentAvailable \/ ~isNavigatorAvailable THEN FALSE
  ELSE LET ua == getUserAgent
           ref == getReferrer
           hasGmailRef == isGmailReferrer(ref)
           hasGsaToken == hasGoogleAppToken(ua)
           hasWvToken == hasWebViewToken(ua)
       IN IF ~isIOSDevice(ua) /\ ~isAndroidDevice(ua) THEN FALSE
          ELSE IF hasGmailRef \/ hasGsaToken THEN TRUE
          ELSE IF REGEX_SAFARI(ua) /\ ~hasWvToken THEN FALSE
          ELSE IF isAndroidDevice(ua) /\ REGEX_CHROME(ua) /\ hasWvToken
                  /\ detectWebView(ua)
            THEN TRUE
          ELSE FALSE

detectInAppBrowser ==
  IF ~isWindowAvailable \/ ~isNavigatorAvailable THEN FALSE
  ELSE
    LET ua == getUserAgent
        ref == getReferrer
        isMobile == isMobileDevice(ua)
        regularBrowser == isKnownRegularBrowser(ua)
        isGoogleApp == hasGoogleAppToken(ua)
        isGmailRef == isGmailReferrer(ref)
        hasExplicitWvToken == hasWebViewToken(ua)
        isAndroidChrome == isAndroidDevice(ua) /\ REGEX_CHROME(ua)
        isWebView == IF isAndroidChrome THEN detectWebView(ua) ELSE FALSE
        hasAndroidAppRef == isAndroidAppReferrer(ref)
        isChromeCct == isAndroidChrome /\ hasAndroidAppRef /\ ~hasBrowserUI
        isGmail == isMobile /\ detectGmailApp
        isChrome == REGEX_CHROME(ua) /\ ~hasExplicitWvToken
        hasKnownInApp == isMobile /\ \E browser \in KNOWN_IN_APP_BROWSERS :
                                        includes(ua, browser)
        isGmailApp == isMobile /\ detectGmailApp /\ ~regularBrowser.isSafari
        isWebViewCheck == isAndroidDevice(ua) /\ detectWebView(ua)
    IN IF regularBrowser.isRegular THEN FALSE
       ELSE IF REGEX_CHROME(ua) /\ (isGoogleApp \/ hasExplicitWvToken \/ isGmailRef)
         THEN TRUE
       ELSE IF isGoogleApp \/ isGmail \/ isWebView \/ isChromeCct THEN TRUE
       ELSE IF isChrome /\ ~isWebView THEN FALSE
       ELSE IF isStandaloneMode \/ regularBrowser.isSafari THEN FALSE
       ELSE IF isMobile /\ (hasKnownInApp \/ isWebViewCheck \/ isGmailApp) THEN TRUE
       ELSE FALSE

\* the Chrome rule before the Edge rule
getBrowserName_ChromeBeforeEdge ==
  IF ~isNavigatorAvailable THEN "Unknown Browser"
  ELSE
    LET ua == getUserAgent
        regularBrowser == isKnownRegularBrowser(ua)
    IN IF hasGoogleAppToken(ua) THEN "Google App"
       ELSE IF includes(ua, "fban") \/ includes(ua, "fbav") THEN "Facebook"
       ELSE IF includes(ua, "twitter") THEN "Twitter"
       ELSE IF includes(ua, "instagram") THEN "Instagram"
       ELSE IF includes(ua, "linkedinapp") THEN "LinkedIn"
       ELSE IF includes(ua, "snapchat") THEN "Snapchat"
       ELSE IF includes(ua, "whatsapp") THEN "WhatsApp"
       ELSE IF includes(ua, "line") THEN "Line"
       ELSE IF includes(ua, "discord") THEN "Discord"
       ELSE IF includes(ua, "telegram") THEN "Telegram"
       ELSE IF detectGmailApp THEN "Gmail"
       ELSE IF REGEX_CHROME(ua) /\ ~hasWebViewToken(ua) THEN "Chrome"
       ELSE IF regularBrowser.isEdge THEN "Edge"
       ELSE IF regularBrowser.isDuckDuckGo THEN "DuckDuckGo"
       ELSE IF regularBrowser.isBrave THEN "Brave"
       ELSE IF REGEX_CRIOS(ua) THEN "Chrome"
       ELSE IF regularBrowser.isFirefox THEN "Firefox"
       ELSE IF regularBrowser.isSafari THEN "Safari"
       ELSE IF regularBrowser.isOpera THEN "Opera"
       ELSE IF regularBrowser.isVivaldi THEN "Vivaldi"
       ELSE IF detectWebView(ua) THEN "WebView"
       ELSE "Unknown Browser"

getBrowserName ==
  IF ~isNavigatorAvailable THEN "Unknown Browser"
  ELSE
    LET ua == getUserAgent
        regularBrowser == isKnownRegularBrowser(ua)
    IN IF hasGoogleAppToken(ua) THEN "Google App"
       ELSE IF includes(ua, "fban") \/ includes(ua, "fbav") THEN "Facebook"
       ELSE IF includes(ua, "twitter") THEN "Twitter"
       ELSE IF includes(ua, "instagram") THEN "Instagram"
       ELSE IF includes(ua, "linkedinapp") THEN "LinkedIn"
       ELSE IF includes(ua, "snapchat") THEN "Snapchat"
       ELSE IF includes(ua, "whatsapp") THEN "WhatsApp"
       ELSE IF includes(ua, "line") THEN "Line"
       ELSE IF includes(ua, "discord") THEN "Discord"
       ELSE IF includes(ua, "telegram") THEN "Telegram"
       ELSE IF detectGmailApp THEN "Gmail"
       ELSE IF regularBrowser.isEdge THEN "Edge"
       ELSE IF regularBrowser.isDuckDuckGo THEN "DuckDuckGo"
       ELSE IF regularBrowser.isBrave THEN "Brave"
       ELSE IF REGEX_CRIOS(ua) THEN "Chrome"
       ELSE IF REGEX_CHROME(ua) /\ ~hasWebViewToken(ua) THEN "Chrome"
       ELSE IF regularBrowser.isFirefox THEN "Firefox"
       ELSE IF regularBrowser.isSafari THEN "Safari"
       ELSE IF regularBrowser.isOpera THEN "Opera"
       ELSE IF regularBrowser.isVivaldi THEN "Vivaldi"
       ELSE IF detectWebView(ua) THEN "WebView"
       ELSE "Unknown Browser"

(***************************************************************************)
(* updateDetectionInfo: the demo page has the diagnostic elements, any     *)
(* other page has none of them.                                            *)
(***************************************************************************)
String(n) == IF n = {} THEN "undefined" ELSE ToString(CHOOSE x \in n : TRUE)

updateDetectionInfo(rawUserAgent) ==
  IF ~isDocumentAvailable \/ ~isWindowAvailable THEN dom
  ELSE [id \in DOMAIN dom |->
          CASE id = "user-agent" -> rawUserAgent
            [] id = "ow" -> String(outerWidth)
            [] id = "iw" -> String(innerWidth)
            [] id = "oh" -> String(innerHeight)
            [] id = "ih" -> String(innerHeight)
            [] id = "standalone" -> IF isStandaloneMode THEN "true" ELSE "false"
            [] id = "doc-referrer" -> referrer
            [] OTHER -> dom[id]]

DiagnosticIds == {"user-agent", "ow", "iw", "oh", "ih", "standalone", "doc-referrer"}
DemoPage == [id \in DiagnosticIds |-> "-"]
NoPage == [id \in {} |-> "-"]

NoCall == [op |-> "none", result |-> FALSE]

InitBrowser ==
  /\ host = "browser"
  /\ userAgent \in UserAgents
  /\ braveHook \in BOOLEAN
  /\ referrer \in Referrers
  /\ \E g \in Geometries :
       /\ outerWidth = g.ow /\ innerWidth = g.iw
       /\ outerHeight = g.oh /\ innerHeight = g.ih
       /\ screenWidth = g.sw
  /\ displayMode \in DisplayModes
  /\ reactNativeWebView \in BOOLEAN
  /\ dom = DemoPage

\* a worker has a navigator but no window, document or screen
InitWorker ==
  /\ host = "worker"
  /\ userAgent \in UserAgents
  /\ braveHook \in BOOLEAN
  /\ referrer = ""
  /\ outerWidth = {} /\ innerWidth = {} /\ outerHeight = {} /\ innerHeight = {}
  /\ screenWidth = {}
  /\ displayMode = "absent"
  /\ reactNativeWebView = FALSE
  /\ dom = NoPage

\* server-side: no navigator, window or document
InitNode ==
  /\ host = "node"
  /\ userAgent = ""
  /\ braveHook = FALSE
  /\ referrer = ""
  /\ outerWidth = {} /\ innerWidth = {} /\ outerHeight = {} /\ innerHeight = {}
  /\ screenWidth = {}
  /\ displayMode = "absent"
  /\ reactNativeWebView = FALSE
  /\ dom = NoPage

\* no call made yet, no AppController constructed
NoApp ==
  /\ memo = {}
  /\ controller = "none"
  /\ isInApp = FALSE /\ browserName = "Unknown Browser"
  /\ statusElement = FALSE /\ banners = 0 /\ timers = 0
  /\ copy = NoCopy /\ button = NoButton

Init ==
  /\ last = NoCall
  /\ NoApp
  /\ (InitBrowser \/ InitWorker \/ InitNode)

(***************************************************************************)
(* One action per public method of InAppBrowserDetector.                   *)
(***************************************************************************)
DetectInAppBrowser ==
  /\ last' = [op |-> "detectInAppBrowser", result |-> detectInAppBrowser]
  /\ dom' = IF ~isWindowAvailable \/ ~isNavigatorAvailable THEN dom
            ELSE updateDetectionInfo(userAgent)
  /\ UNCHANGED <<clip, env, memo, app>>

DetectGmailApp ==
  /\ last' = [op |-> "detectGmailApp", result |-> detectGmailApp]
  /\ UNCHANGED <<clip, env, dom, memo, app>>

DetectWebView ==
  /\ last' = [op |-> "detectWebView", result |-> detectWebView(getUserAgent)]
  /\ UNCHANGED <<clip, env, dom, memo, app>>

GetBrowserName ==
  /\ last' = [op |-> "getBrowserName", result |-> getBrowserName]
  /\ UNCHANGED <<clip, env, dom, memo, app>>

Next ==
  \/ DetectInAppBrowser
  \/ DetectGmailApp
  \/ DetectWebView
  \/ GetBrowserName

Spec == Init /\ [][Next]_vars

TypeOK ==
  /\ last.op \in {"none", "detectInAppBrowser", "detectGmailApp", "detectWebView",
                  "getBrowserName", "js.detectInAppBrowser", "js.detectGmailApp",
                  "js.detectWebView", "js.getBrowserName", "removeProbe",
                  "lib.detectInAppBrowser", "detectBrowser"}
  /\ last.op \in {"detectInAppBrowser", "detectGmailApp", "detectWebView"}
       => last.result \in BOOLEAN

(***************************************************************************)
(* The JavaScript InAppBrowserDetector (js/InAppBrowserDetector.js): the   *)
(* same decisions written without the availability guards.  A call         *)
(* returns a value or throws (a ReferenceError for a global that does not  *)
(* exist, a TypeError for window.matchMedia when it is not a function).    *)
(***************************************************************************)
Returns(v) == [threw |-> FALSE, value |-> v]
Throws == [threw |-> TRUE]

jsHasBrowserUI ==
  GreaterThan(Minus(outerWidth, innerWidth), 30)
    \/ GreaterThan(Minus(outerHeight, innerHeight), 30)

\* screenDiff = (typeof screen !== 'undefined' && screen.width) ? ... : 0
jsHasNormalScreenLayout ==
  IF screenWidth = {} \/ screenWidth = {0} THEN FALSE
  ELSE GreaterThan(Minus(screenWidth, outerWidth), 50)

jsDetectWebView(ua) ==
  IF includes(ua, "duckduckgo") \/ includes(ua, "ddg/") THEN Returns(FALSE)
  ELSE IF includes(ua, "edg") THEN Returns(FALSE)
  ELSE IF includes(ua, "brave") THEN Returns(FALSE)
  ELSE IF ~isNavigatorAvailable THEN Throws
  ELSE IF braveHook THEN Returns(FALSE)
  ELSE IF includes(ua, "firefox") THEN Returns(FALSE)
  ELSE IF includes(ua, "opera") \/ includes(ua, "opr/") THEN Returns(FALSE)
  ELSE IF includes(ua, "vivaldi") THEN Returns(FALSE)
  ELSE IF ~isWindowAvailable THEN Throws
  ELSE IF reactNativeWebView THEN Returns(TRUE)
  ELSE IF REGEX_WV_TOKEN(ua) THEN Returns(TRUE)
  ELSE IF includes(ua, "android") THEN
    LET hasVersionPattern == REGEX_VERSION_PATTERN(ua)
        hasChromePattern == REGEX_CHROME_PATTERN(ua)
        versionIndex == indexOf(toLowerCase(ua), "version/")
        chromeIndex == indexOf(toLowerCase(ua), "chrome/")
    IN IF /\ hasVersionPattern
          /\ (~hasChromePattern \/ chromeIndex > versionIndex)
          /\ ~includes(ua, "ddg/") /\ ~includes(ua, "duckduckgo")
          /\ ~includes(ua, "brave") /\ ~braveHook
         THEN Returns(TRUE)
       ELSE IF includes(ua, "chrome") THEN
         IF jsHasBrowserUI \/ jsHasNormalScreenLayout THEN Returns(FALSE)
         ELSE IF REGEX_WV_TOKEN(ua) THEN Returns(TRUE)
         ELSE Returns(FALSE)
       ELSE Returns(FALSE)
  ELSE Returns(FALSE)

jsDetectGmailApp ==
  IF ~isNavigatorAvailable \/ ~isDocumentAvailable THEN Throws
  ELSE
    LET ua == toLowerCase(userAgent)
        ref == toLowerCase(referrer)
        hasGmailReferrer == includes(ref, "android-app://com.google.android.gm")
        hasGsaToken == REGEX_GSA_TOKEN(ua)
        hasWvToken == REGEX_WV_TOKEN(ua)
    IN IF ~(includes(ua, "android") \/ includes(ua, "iphone") \/ includes(ua, "ipad"))
         THEN Returns(FALSE)
       ELSE IF hasGmailReferrer \/ hasGsaToken THEN Returns(TRUE)
       ELSE IF includes(ua, "safari") /\ ~includes(ua, "wv") THEN Returns(FALSE)
       ELSE IF /\ includes(ua, "android") /\ includes(ua, "chrome") /\ hasWvToken
               /\ ~jsDetectWebView(ua).threw /\ jsDetectWebView(ua).value
         THEN Returns(TRUE)
       ELSE Returns(FALSE)

jsDetectInAppBrowser ==
  IF ~isNavigatorAvailable \/ ~isDocumentAvailable THEN Throws
  ELSE
    LET ua == toLowerCase(userAgent)
        ref == toLowerCase(referrer)
        isMobile == REGEX_MOBILE(ua)
        isBraveFeature == braveHook
        isSafari == /\ includes(ua, "safari") /\ ~includes(ua, "chrome")
                    /\ ~includes(ua, "crios") /\ ~includes(ua, "wv")
                    /\ ~REGEX_GSA_TOKEN(ua)
        isEdge == includes(ua, "edg")
        isFirefox == includes(ua, "firefox")
        isOpera == includes(ua, "opera") \/ includes(ua, "opr/")
        isDuckDuckGo == includes(ua, "duckduckgo") \/ includes(ua, "ddg/")
        isBrave == includes(ua, "brave")
        isVivaldi == includes(ua, "vivaldi")
        isGoogleApp == REGEX_GSA_TOKEN(ua)
        isGmailRef == REGEX_GMAIL_REFERRER(ref)
        hasExplicitWvToken == REGEX_WV_TOKEN(ua)
        isAndroidChrome == includes(ua, "android") /\ includes(ua, "chrome")
        isWebView == IF isAndroidChrome THEN jsDetectWebView(ua).value ELSE FALSE
        hasAndroidAppReferrer == startsWith(ref, "android-app://")
        isChromeCct == isAndroidChrome /\ hasAndroidAppReferrer /\ ~jsHasBrowserUI
        isGmail == isMobile /\ jsDetectGmailApp.value
        isChrome == includes(ua, "chrome") /\ ~hasExplicitWvToken
        hasKnownInApp == isMobile /\ \E browser \in KNOWN_IN_APP_BROWSERS :
                                        includes(ua, browser)
        isGmailApp == isMobile /\ jsDetectGmailApp.value /\ ~isSafari
        isWebViewCheck == includes(ua, "android") /\ jsDetectWebView(ua).value
    IN IF \/ isSafari \/ isEdge \/ isFirefox \/ isOpera \/ isDuckDuckGo \/ isBrave
          \/ isVivaldi \/ isBraveFeature
         THEN Returns(FALSE)
       ELSE IF includes(ua, "chrome") /\ (isGoogleApp \/ hasExplicitWvToken \/ isGmailRef)
         THEN Returns(TRUE)
       ELSE IF isGoogleApp \/ isGmail \/ isWebView \/ isChromeCct THEN Returns(TRUE)
       ELSE IF isChrome /\ ~isWebView THEN Returns(FALSE)
       ELSE IF displayMode = "absent" THEN Throws
       ELSE IF displayMode = "standalone" \/ isSafari THEN Returns(FALSE)
       ELSE IF isMobile /\ (hasKnownInApp \/ isWebViewCheck \/ isGmailApp)
         THEN Returns(TRUE)
       ELSE Returns(FALSE)

jsGetBrowserName ==
  IF ~isNavigatorAvailable THEN Throws
  ELSE
    LET ua == toLowerCase(userAgent)
    IN IF REGEX_GSA_TOKEN(ua) THEN Returns("Google App")
       ELSE IF includes(ua, "fban") \/ includes(ua, "fbav") THEN Returns("Facebook")
       ELSE IF includes(ua, "twitter") THEN Returns("Twitter")
       ELSE IF includes(ua, "instagram") THEN Returns("Instagram")
       ELSE IF includes(ua, "linkedinapp") THEN Returns("LinkedIn")
       ELSE IF includes(ua, "snapchat") THEN Returns("Snapchat")
       ELSE IF includes(ua, "whatsapp") THEN Returns("WhatsApp")
       ELSE IF includes(ua, "line") THEN Returns("Line")
       ELSE IF includes(ua, "discord") THEN Returns("Discord")
       ELSE IF includes(ua, "telegram") THEN Returns("Telegram")
       ELSE IF jsDetectGmailApp.threw THEN Throws
       ELSE IF jsDetectGmailApp.value THEN Returns("Gmail")
       ELSE IF includes(ua, "edg") THEN Returns("Edge")
       ELSE IF includes(ua, "duckduckgo") \/ includes(ua, "ddg/")
         THEN Returns("DuckDuckGo")
       ELSE IF includes(ua, "brave") \/ braveHook THEN Returns("Brave")
       ELSE IF includes(ua, "crios") THEN Returns("Chrome")
       ELSE IF includes(ua, "chrome") /\ ~includes(ua, "wv") THEN Returns("Chrome")
       ELSE IF includes(ua, "firefox") THEN Returns("Firefox")
       ELSE IF /\ includes(ua, "safari") /\ ~includes(ua, "chrome")
               /\ ~includes(ua, "crios") /\ ~includes(ua, "wv")
               /\ ~REGEX_GSA_TOKEN(ua)
         THEN Returns("Safari")
       ELSE IF includes(ua, "opera") \/ includes(ua, "opr/") THEN Returns("Opera")
       ELSE IF includes(ua, "vivaldi") THEN Returns("Vivaldi")
       ELSE IF jsDetectWebView(ua).threw THEN Throws
       ELSE IF jsDetectWebView(ua).value THEN Returns("WebView")
       ELSE Returns("Unknown Browser")

jsUpdateDetectionInfo(rawUserAgent) ==
  [id \in DOMAIN dom |->
     CASE id = "user-agent" -> rawUserAgent
       [] id = "ow" -> String(outerWidth)
       [] id = "iw" -> String(innerWidth)
       [] id = "oh" -> String(outerHeight)
       [] id = "ih" -> String(innerHeight)
       [] id = "standalone" -> IF displayMode = "standalone" THEN "true" ELSE "false"
       [] id = "doc-referrer" -> referrer
       [] OTHER -> dom[id]]

JsDetectInAppBrowser ==
  /\ last' = [op |-> "js.detectInAppBrowser", result |-> jsDetectInAppBrowser]
  /\ dom' = IF ~isNavigatorAvailable \/ ~isDocumentAvailable THEN dom
            ELSE jsUpdateDetectionInfo(userAgent)
  /\ UNCHANGED <<clip, env, memo, app>>

JsDetectGmailApp ==
  /\ last' = [op |-> "js.detectGmailApp", result |-> jsDetectGmailApp]
  /\ UNCHANGED <<clip, env, dom, memo, app>>

JsDetectWebView ==
  /\ last' = [op |-> "js.detectWebView", result |-> jsDetectWebView(toLowerCase(userAgent))]
  /\ UNCHANGED <<clip, env, dom, memo, app>>

JsGetBrowserName ==
  /\ last' = [op |-> "js.getBrowserName", result |-> jsGetBrowserName]
  /\ UNCHANGED <<clip, env, dom, memo, app>>

NextJs ==
  \/ JsDetectInAppBrowser
  \/ JsDetectGmailApp
  \/ JsDetectWebView
  \/ JsGetBrowserName

SpecJs == Init /\ [][NextJs]_vars

(***************************************************************************)
(* SpecPages: the detector called again and again while the page it reads  *)
(* changes between the calls (navigator.userAgent and document.referrer    *)
(* are read anew at every call); the diagnostic elements keep what the     *)
(* last call of detectInAppBrowser wrote.  memo records every call.        *)
(***************************************************************************)
PagesUserAgents ==
  {"Mozilla/5.0 (Linux; Android 13) Chrome/115.0 Mobile Safari/537.36",
   "Mozilla/5.0 (iPhone; CPU iPhone OS 17_0) FBAN/FB4A"}
PagesReferrers == {"", "android-app://com.google.android.gm"}

InitPages ==
  /\ last = NoCall
  /\ NoApp
  /\ host = "browser"
  /\ userAgent \in PagesUserAgents
  /\ referrer \in PagesReferrers
  /\ braveHook = FALSE
  /\ outerWidth = {360} /\ innerWidth = {360}
  /\ outerHeight = {640} /\ innerHeight = {640}
  /\ screenWidth = {360}
  /\ displayMode \in {"browser", "standalone"}
  /\ reactNativeWebView = FALSE
  /\ dom = DemoPage

PagesDetectInAppBrowser ==
  /\ last' = [op |-> "detectInAppBrowser", result |-> detectInAppBrowser]
  /\ dom' = IF ~isWindowAvailable \/ ~isNavigatorAvailable THEN dom
            ELSE updateDetectionInfo(userAgent)
  /\ memo' = memo \cup {<<userAgent, referrer, "detectInAppBrowser", detectInAppBrowser>>}
  /\ UNCHANGED <<clip, env, app>>

PagesGetBrowserName ==
  /\ last' = [op |-> "getBrowserName", result |-> getBrowserName]
  /\ memo' = memo \cup {<<userAgent, referrer, "getBrowserName", getBrowserName>>}
  /\ UNCHANGED <<clip, env, dom, app>>

\* the next call finds another user agent or another referrer
SetPage ==
  /\ \E ua \in PagesUserAgents, ref \in PagesReferrers :
       /\ <<ua, ref>> # <<userAgent, referrer>>
       /\ userAgent' = ua
       /\ referrer' = ref
  /\ UNCHANGED <<clip, host, braveHook, outerWidth, innerWidth, outerHeight, innerHeight,
                 screenWidth, displayMode, reactNativeWebView, dom, last, memo, app>>

NextPages ==
  \/ PagesDetectInAppBrowser
  \/ PagesGetBrowserName
  \/ SetPage

SpecPages == InitPages /\ [][NextPages]_vars

(***************************************************************************)
(* The detector of src/lib/InAppBrowserDetector.ts: the platform type      *)
(* comes from the bowser parser, the verdict from the referrer and from    *)
(* tokens of the user agent.  An argument that is not passed is {}, the    *)
(* argument s is {s}.                                                      *)
(***************************************************************************)
REFERRER_PREFIXES ==
  {"android-app://com.google.android.gm",
   "android-app://com.google.android.apps.inbox",
   "android-app://com.microsoft.office.outlook",
   "android-app://com.microsoft.office.outlooklite",
   "android-app://com.yahoo.mobile.client.android.mail",
   "android-app://com.yahoo.mobile.client.android.mail.lite",
   "android-app://ch.protonmail.android",
   "android-app://com.readdle.spark",
   "android-app://com.zoho.mail",
   "android-app://ru.yandex.mail",
   "android-app://com.aol.mobile.aolapp",
   "android-app://me.bluemail.mail",
   "android-app://com.fsck.k9",
   "android-app://org.mozilla.thunderbird",
   "android-app://ru.mail.mailapp"}

REFERRER_HOSTS ==
  {"mail.google.com", "inbox.google.com", "mail.workspace.google.com",
   "outlook.live.com", "outlook.office365.com", "mail.live.com",
   "outlook.office.com", "mail.icloud.com", "icloud.com", "mail.yahoo.com",
   "mail.proton.me", "mail.protonmail.com", "mail.zoho.com", "mail.zoho.in",
   "mail.yandex.com", "mail.yandex.ru", "mail.aol.com", "mail.ru",
   "e.mail.ru", "app.hey.com", "www.fastmail.com", "app.fastmail.com",
   "sparkmailapp.com"}

IN_APP_TOKENS ==
  {"gsa/", "wv", "gmail", "com.google.android.gm", "googlemail", "outlook",
   "hotmail", "com.microsoft.office.outlook",
   "com.microsoft.office.outlooklite", "ymail", "yahoo mail",
   "com.yahoo.mobile.client.android.mail", "protonmail",
   "ch.protonmail.android", "zoho mail", "com.zoho.mail", "sparkmail",
   "com.readdle.spark", "yandexmail", "ru.yandex.mail", "aolmail",
   "com.aol.mobile.aolapp", "bluemail", "typeapp", "me.bluemail.mail",
   "k-9 mail", "thunderbird", "com.fsck.k9", "org.mozilla.thunderbird",
   "mail.ru", "ru.mail.mailapp", "fastmail", "hey.com"}

WEBVIEW_TOKENS == {" wv", "; wv", "_wv", "webview", " crosswalk"}

\* the user agents and referrers given to the detector, by the page or as
\* arguments
LibUserAgents ==
  {"Mozilla/5.0 (Linux; Android 10) Chrome/91.0 Mobile Safari/537.36",
   "Mozilla/5.0 (Linux; Android 10; wv) Chrome/91.0 Mobile Safari/537.36",
   "Mozilla/5.0 (Windows NT 10.0; Win64; x64) Chrome/115.0 Safari/537.36",
   "Mozilla/5.0 (Windows NT 10.0; Win64; x64) Thunderbird/115.0",
   "Mozilla/5.0 (iPad; CPU OS 17_0 like Mac OS X) GSA/300.0",
   "Mozilla/5.0 (PlayStation 4 9.00) AppleWebKit/605.1.15 WebView",
   "Microsoft Office/16.0 (Microsoft Outlook 16.0.4266; Pro)"}
LibPageUserAgents ==
  {"Mozilla/5.0 (Linux; Android 10) Chrome/91.0 Mobile Safari/537.36",
   "Mozilla/5.0 (Windows NT 10.0; Win64; x64) Chrome/115.0 Safari/537.36"}
LibReferrers ==
  {"android-app://com.google.android.gm", "https://Mail.Google.com/mail/u/0/",
   "https://www.example.com/"}
LibPageReferrers ==
  {"", "https://Mail.Google.com/mail/u/0/", "https://www.example.com/"}

\* what the bowser parser answers for a user agent: iPad is a tablet,
\* iPhone and any "mobi" user agent are mobile, any other Android is a
\* tablet, macOS, Windows and Linux are desktop, a PlayStation 4 and a Roku
\* are tv; {} is undefined
PlatformTypeOf(ua) ==
  LET l == toLowerFrom(ua, 1)
      has(p) == Search(l, p) # {}
  IN IF has("ipad") THEN {"tablet"}
     ELSE IF has("iphone") \/ has("ipod") THEN {"mobile"}
     ELSE IF \E i \in Search(l, "mobi") : i > 1 /\ CharAt(l, i - 1) # "-"
       THEN {"mobile"}
     ELSE IF has("android") THEN {"tablet"}
     ELSE IF has("macintosh") \/ has("windows nt") \/ has("linux") THEN {"desktop"}
     ELSE IF has("playstation 4") \/ has("roku") THEN {"tv"}
     ELSE {}

PlatformTypeTable == [ua \in LibUserAgents |-> PlatformTypeOf(ua)]

getPlatformType(ua) ==
  IF ua \in LibUserAgents THEN PlatformTypeTable[ua] ELSE PlatformTypeOf(ua)

\* IN_APP_TOKENS.some(...) and WEBVIEW_TOKENS.some(...) on the lowercased
\* user agent
hasInAppToken(ua) ==
  LET normalizedUA == toLowerFrom(ua, 1)
  IN \E token \in IN_APP_TOKENS : Search(normalizedUA, token) # {}

hasWebViewTokenLib(ua) ==
  LET normalizedUA == toLowerFrom(ua, 1)
  IN \E token \in WEBVIEW_TOKENS : Search(normalizedUA, token) # {}

TokenTable ==
  [ua \in LibUserAgents |->
     [inApp |-> hasInAppToken(ua), webView |-> hasWebViewTokenLib(ua)]]

\* String.prototype.toLowerCase on the referrers of the model
LibLowerTable == [s \in LibReferrers \cup LibPageReferrers |-> toLowerFrom(s, 1)]
libToLowerCase(s) ==
  IF s \in DOMAIN LibLowerTable THEN LibLowerTable[s] ELSE toLowerFrom(s, 1)

libGetUserAgent(userAgentOverride) ==
  IF userAgentOverride # {} /\ userAgentOverride # {""}
    THEN CHOOSE s \in userAgentOverride : TRUE
  ELSE IF isNavigatorAvailable /\ userAgent # "" THEN userAgent
  ELSE ""

libGetReferrer(referrerOverride) ==
  IF referrerOverride # {} /\ referrerOverride # {""}
    THEN libToLowerCase(CHOOSE s \in referrerOverride : TRUE)
  ELSE IF isDocumentAvailable /\ referrer # "" THEN libToLowerCase(referrer)
  ELSE ""

hasKnownReferrerOf(ref) ==
  IF ref = "" THEN FALSE
  ELSE IF \E prefix \in REFERRER_PREFIXES : startsWith(ref, prefix) THEN TRUE
  ELSE \E h \in REFERRER_HOSTS : Search(ref, h) # {}

LoweredReferrers == {LibLowerTable[r] : r \in DOMAIN LibLowerTable}
KnownReferrerTable == [ref \in LoweredReferrers |-> hasKnownReferrerOf(ref)]

\* only the prefixes are known
hasKnownReferrer_PrefixOnly(ref) ==
  ref # "" /\ \E prefix \in REFERRER_PREFIXES : startsWith(ref, prefix)

hasKnownReferrer(ref) ==
  IF ref \in LoweredReferrers THEN KnownReferrerTable[ref]
  ELSE hasKnownReferrerOf(ref)

\* the tokens are scanned whatever the platform type
libVerdict_NoPlatformFilter(ua, ref) ==
  IF ua = "" THEN FALSE
  ELSE IF hasKnownReferrer(ref) THEN TRUE
  ELSE IF ua \in LibUserAgents
    THEN TokenTable[ua].inApp \/ TokenTable[ua].webView
  ELSE hasInAppToken(ua) \/ hasWebViewTokenLib(ua)

\* the steps of detectInAppBrowser for the user agent ua and the lowercased
\* referrer ref
libVerdict(ua, ref) ==
  IF ua = "" THEN FALSE
  ELSE IF hasKnownReferrer(ref) THEN TRUE
  ELSE LET parsed == getPlatformType(ua)
           platformType == IF parsed = {} THEN "unknown"
                           ELSE CHOOSE t \in parsed : TRUE
           isMobileLike == platformType = "mobile" \/ platformType = "tablet"
       IN IF ~isMobileLike THEN FALSE
          ELSE IF ua \in LibUserAgents
            THEN TokenTable[ua].inApp \/ TokenTable[ua].webView
          ELSE hasInAppToken(ua) \/ hasWebViewTokenLib(ua)

libDetectInAppBrowser(userAgentOverride, referrerOverride) ==
  libVerdict(libGetUserAgent(userAgentOverride), libGetReferrer(referrerOverride))

Overrides(S) == {{}, {""}} \cup {{s} : s \in S}

InitLib ==
  /\ last = NoCall
  /\ NoApp
  /\ \/ /\ host = "browser"
        /\ userAgent \in LibPageUserAgents
        /\ referrer \in LibPageReferrers
     \/ /\ host = "node"
        /\ userAgent = ""
        /\ referrer = ""
  /\ braveHook = FALSE
  /\ outerWidth = {} /\ innerWidth = {} /\ outerHeight = {} /\ innerHeight = {}
  /\ screenWidth = {}
  /\ displayMode = "absent"
  /\ reactNativeWebView = FALSE
  /\ dom = NoPage

\* memo keeps the first call that passed both arguments
LibDetectInAppBrowser ==
  \E userAgentOverride \in Overrides(LibUserAgents),
     referrerOverride \in Overrides(LibReferrers) :
    LET result == libDetectInAppBrowser(userAgentOverride, referrerOverride)
    IN /\ last' = [op |-> "lib.detectInAppBrowser", result |-> result,
                   userAgentOverride |-> userAgentOverride,
                   referrerOverride |-> referrerOverride,
                   ua |-> libGetUserAgent(userAgentOverride),
                   referrer |-> libGetReferrer(referrerOverride)]
       /\ memo' = IF memo = {} /\ userAgentOverride # {} /\ referrerOverride # {}
                    THEN {<<userAgentOverride, referrerOverride,
                            "lib.detectInAppBrowser", result>>}
                  ELSE memo
       /\ UNCHANGED <<clip, env, dom, app>>

\* the page moves on: another user agent (emulation), another referrer
LibSetPage ==
  /\ host = "browser"
  /\ \E ua \in LibPageUserAgents, ref \in LibPageReferrers :
       /\ <<ua, ref>> # <<userAgent, referrer>>
       /\ userAgent' = ua
       /\ referrer' = ref
  /\ UNCHANGED <<clip, host, braveHook, outerWidth, innerWidth, outerHeight, innerHeight,
                 screenWidth, displayMode, reactNativeWebView, dom, last, memo, app>>

NextLib ==
  \/ LibDetectInAppBrowser
  \/ LibSetPage

SpecLib == InitLib /\ [][NextLib]_vars

(***************************************************************************)
(* The AppController of the demo page, in JavaScript (js/AppController.js, *)
(* on the JavaScript detector) and in TypeScript (examples/js/             *)
(* AppController.ts, on the TypeScript detector).  The constructor runs    *)
(* detectBrowser; updateDetectionUI retries every 100 ms until the page    *)
(* has the #detection-status element; the banner has a Dismiss button.     *)
(***************************************************************************)
MaxTimers == 2

\* createWarningBanner: the number of banners after the call
createWarningBanner(c) ==
  IF c = "js" THEN (IF banners > 0 THEN banners ELSE banners + 1)
  ELSE (IF banners > 0 THEN banners - 1 ELSE banners) + 1

\* hideInAppUI that leaves the banner where it is
hideInAppUI_KeepsBanner == banners

\* hideInAppUI / removeWarningBanner: the number of banners after the call
hideInAppUI == IF banners > 0 THEN banners - 1 ELSE banners

\* updateAdditionalInfo of the TypeScript controller, on the elements d
updateAdditionalInfo(d) ==
  IF ~isWindowAvailable THEN d
  ELSE [id \in DOMAIN d |->
          CASE id = "ow" -> String(outerWidth)
            [] id = "iw" -> String(innerWidth)
            [] id = "oh" -> String(outerHeight)
            [] id = "ih" -> String(innerHeight)
            [] id = "standalone" -> IF displayMode = "standalone" THEN "true" ELSE "false"
            [] id = "doc-referrer" -> referrer
            [] OTHER -> d[id]]

\* updateDetectionUI that sets the retry timer whether the element is
\* there or not
updateDetectionUI_AlwaysRetries(c, inApp) ==
  /\ timers < MaxTimers
  /\ timers' = timers + 1
  /\ banners' = IF ~statusElement THEN banners
                ELSE IF inApp THEN createWarningBanner(c) ELSE hideInAppUI

\* updateDetectionUI of the controller c with this.isInApp = inApp: no
\* #detection-status element, one more timer; else the banner is shown or hidden
updateDetectionUI(c, inApp) ==
  IF ~statusElement
    THEN /\ timers < MaxTimers
         /\ timers' = timers + 1
         /\ banners' = banners
  ELSE /\ timers' = timers
       /\ banners' = IF inApp THEN createWarningBanner(c) ELSE hideInAppUI

\* detectBrowser of the controller c: r and n are what detectInAppBrowser and
\* getBrowserName return or throw, detected the diagnostic elements after the
\* detector wrote them
detectBrowser(c) ==
  \E r \in {IF c = "ts" THEN Returns(detectInAppBrowser) ELSE jsDetectInAppBrowser},
     n \in {IF c = "ts" THEN Returns(getBrowserName) ELSE jsGetBrowserName},
     detected \in {IF c = "ts" THEN updateDetectionInfo(userAgent)
                   ELSE jsUpdateDetectionInfo(userAgent)} :
    /\ isInApp' = IF r.threw THEN isInApp ELSE r.value
    /\ browserName' = IF r.threw \/ n.threw THEN "Error" ELSE n.value
    /\ updateDetectionUI(c, isInApp')
    /\ dom' = IF c = "ts" /\ statusElement THEN updateAdditionalInfo(detected)
              ELSE detected
    /\ last' = [op |-> "detectBrowser", result |-> isInApp', before |-> banners]

InitUI ==
  /\ last = NoCall
  /\ NoApp
  /\ host = "browser"
  /\ userAgent \in {"Mozilla/5.0 (Linux; Android 13) Chrome/115.0 Mobile Safari/537.36",
                    "Mozilla/5.0 (iPhone; CPU iPhone OS 17_0) FBAN/FB4A"}
  /\ referrer = "android-app://com.facebook.katana"
  /\ braveHook = FALSE
  /\ outerWidth = {360} /\ innerWidth = {360}
  /\ outerHeight = {640} /\ innerHeight = {640}
  /\ screenWidth = {360}
  /\ displayMode \in {"browser", "absent"}
  /\ reactNativeWebView = FALSE
  /\ dom = DemoPage

\* new AppController() (the constructor calls init(), init() calls
\* detectBrowser()), and appController.detectBrowser() called again
DetectBrowser ==
  /\ \E c \in IF controller = "none" THEN {"js", "ts"} ELSE {controller} :
       /\ controller' = c
       /\ detectBrowser(c)
  /\ UNCHANGED <<clip, env, memo, statusElement>>

\* the timer set by updateDetectionUI fires
RetryUpdateDetectionUI ==
  /\ timers > 0
  /\ IF ~statusElement THEN timers' = timers /\ banners' = banners
     ELSE /\ timers' = timers - 1
          /\ banners' = IF isInApp THEN createWarningBanner(controller) ELSE hideInAppUI
  /\ dom' = IF controller = "ts" /\ statusElement THEN updateAdditionalInfo(dom) ELSE dom
  /\ UNCHANGED <<clip, env, last, memo, controller, isInApp, browserName, statusElement>>

\* a click on the Dismiss button of a banner
Dismiss ==
  /\ banners > 0
  /\ banners' = banners - 1
  /\ UNCHANGED <<clip, env, dom, last, memo, controller, isInApp, browserName,
                 statusElement, timers>>

\* the document gets its #detection-status element
StatusElementAppears ==
  /\ ~statusElement
  /\ statusElement' = TRUE
  /\ UNCHANGED <<clip, env, dom, last, memo, controller, isInApp, browserName, banners,
                 timers>>

\* the window is resized: browser UI comes or goes; the TypeScript controller
\* listens to resize
Resize ==
  /\ \E ow \in {{360}, {391}} :
       /\ ow # outerWidth
       /\ outerWidth' = ow
  /\ dom' = IF controller = "ts"
              THEN [id \in DOMAIN dom |->
                      IF id = "ow" THEN String(outerWidth') ELSE updateAdditionalInfo(dom)[id]]
            ELSE dom
  /\ UNCHANGED <<clip, host, userAgent, braveHook, referrer, innerWidth, outerHeight,
                 innerHeight, screenWidth, displayMode, reactNativeWebView, last,
                 memo, app>>

NextUI ==
  \/ DetectBrowser
  \/ RetryUpdateDetectionUI
  \/ Dismiss
  \/ StatusElementAppears
  \/ Resize

SpecUI == InitUI /\ [][NextUI]_vars

\* a timer that is pending fires: setTimeout runs its callback after 100 ms
SpecUIFair == SpecUI /\ WF_vars(RetryUpdateDetectionUI)

(***************************************************************************)
(* getBrowserName on pages whose user agent names up to two applications   *)
(* or browsers.                                                            *)
(***************************************************************************)
InitLabelPage ==
  /\ host = "browser"
  /\ userAgent \in LabelUserAgents
  /\ braveHook \in BOOLEAN
  /\ referrer \in {"", "android-app://com.google.android.gm"}
  /\ outerWidth = {360} /\ innerWidth = {360}
  /\ outerHeight = {640} /\ innerHeight = {640}
  /\ screenWidth = {360}
  /\ displayMode = "browser"
  /\ reactNativeWebView \in BOOLEAN
  /\ dom = DemoPage

InitLabels ==
  /\ last = NoCall
  /\ NoApp
  /\ (InitLabelPage \/ InitWorker \/ InitNode)

NextLabels == GetBrowserName

SpecLabels == InitLabels /\ [][NextLabels]_vars

(***************************************************************************)
(* SpecClipboard: the user presses the copy button of the demo page, up to *)
(* MaxCopies times; a copy can start as soon as the one before has         *)
(* returned, while restore timers of earlier copies are still pending.     *)
(* Timers of the same delay fire in the order they were set.               *)
(***************************************************************************)
ExecOutcomes == {"true", "false", "throws"}
PromptOutcomes == {"returns", "throws"}

InitClipboard ==
  /\ last = NoCall
  /\ NoApp
  /\ host = "browser"
  /\ userAgent = "Mozilla/5.0 (Linux; Android 13) Chrome/115.0 Mobile Safari/537.36"
  /\ referrer = ""
  /\ braveHook = FALSE
  /\ outerWidth = {360} /\ innerWidth = {360}
  /\ outerHeight = {640} /\ innerHeight = {640}
  /\ screenWidth = {360}
  /\ displayMode = "browser"
  /\ reactNativeWebView = FALSE
  /\ dom = DemoPage

\* copyToClipboard(text, feedbackElement) up to its first suspension
CopyToClipboard ==
  /\ copy.pc = "idle"
  /\ button.copies < MaxCopies
  /\ \E element \in {"null", "button"}, hasClipboard \in BOOLEAN,
        execOutcome \in ExecOutcomes, promptOutcome \in PromptOutcomes :
       LET c == [NoCopy EXCEPT !.element = element, !.result = "pending"]
           b == [button EXCEPT !.copies = @ + 1]
           r == fallbacks(c, b, execOutcome, promptOutcome)
       IN IF hasClipboard
            THEN /\ copy' = [c EXCEPT !.pc = "writeText", !.tried = <<"clipboard">>]
                 /\ button' = b
          ELSE /\ copy' = r.copy
               /\ button' = r.button
  /\ UNCHANGED <<env, dom, last, memo, app>>

\* navigator.clipboard.writeText(text) resolves or rejects
WriteTextSettles ==
  /\ copy.pc = "writeText"
  /\ \E ok \in BOOLEAN, execOutcome \in ExecOutcomes, promptOutcome \in PromptOutcomes :
       LET r == fallbacks(copy, button, execOutcome, promptOutcome)
       IN IF ok
            THEN /\ copy' = [copy EXCEPT !.pc = "idle",
                                         !.succeeded = @ \cup {"clipboard"},
                                         !.result = "true"]
                 /\ button' = showCopyFeedback(button, copy.element, FALSE)
          ELSE /\ copy' = r.copy
               /\ button' = r.button
  /\ UNCHANGED <<env, dom, last, memo, app>>

\* the oldest restore timer fires, 2000 ms after it was set
RestoreTimerFires ==
  /\ button.timers # <<>>
  /\ button' = [button EXCEPT !.text = Head(button.timers).originalText,
                              !.background = Head(button.timers).originalBackground,
                              !.timers = Tail(@)]
  /\ UNCHANGED <<env, dom, last, memo, app, copy>>

NextClipboard ==
  \/ CopyToClipboard
  \/ WriteTextSettles
  \/ RestoreTimerFires

SpecClipboard == InitClipboard /\ [][NextClipboard]_vars

(***************************************************************************)
(* The page loses a probe between two calls: the window dimensions, the    *)
(* screen width, matchMedia, the React Native bridge or navigator.brave    *)
(* is there at the first call of detectInAppBrowser and gone at the next.  *)
(* memo keeps the verdict of the call before the probe went away.          *)
(***************************************************************************)
ProbeUserAgents ==
  {"Mozilla/5.0 (Linux; Android 13) Chrome/115.0 Mobile Safari/537.36",
   "Mozilla/5.0 (Linux; Android 13)",
   "Mozilla/5.0 (Linux; Android 13) Version/4.0",
   "Mozilla/5.0 (iPhone; CPU iPhone OS 17_0) FBAN/FB4A",
   "Mozilla/5.0 (Windows NT 10.0) Chrome/115.0 Mobile Safari/537.36"}

Probes == {"viewport", "screen.width", "matchMedia", "ReactNativeWebView",
           "navigator.brave"}

InitProbes ==
  /\ last = NoCall
  /\ NoApp
  /\ InitBrowser
  /\ userAgent \in ProbeUserAgents

ProbePresent(p) ==
  CASE p = "viewport" -> outerWidth # {} /\ innerWidth # {}
                         /\ outerHeight # {} /\ innerHeight # {}
    [] p = "screen.width" -> screenWidth # {}
    [] p = "matchMedia" -> displayMode # "absent"
    [] p = "ReactNativeWebView" -> reactNativeWebView
    [] p = "navigator.brave" -> braveHook

\* the probe p is undefined from now on; the verdict of the last call is kept
RemoveProbe(p) ==
  /\ last.op = "detectInAppBrowser"
  /\ ProbePresent(p)
  /\ outerWidth' = IF p = "viewport" THEN {} ELSE outerWidth
  /\ innerWidth' = IF p = "viewport" THEN {} ELSE innerWidth
  /\ outerHeight' = IF p = "viewport" THEN {} ELSE outerHeight
  /\ innerHeight' = IF p = "viewport" THEN {} ELSE innerHeight
  /\ screenWidth' = IF p = "screen.width" THEN {} ELSE screenWidth
  /\ displayMode' = IF p = "matchMedia" THEN "absent" ELSE displayMode
  /\ reactNativeWebView' = IF p = "ReactNativeWebView" THEN FALSE
                           ELSE reactNativeWebView
  /\ braveHook' = IF p = "navigator.brave" THEN FALSE ELSE braveHook
  /\ memo' = {<<userAgent, referrer, p, last.result>>}
  /\ last' = [op |-> "removeProbe", result |-> FALSE]
  /\ UNCHANGED <<clip, host, userAgent, referrer, dom, app>>

NextProbes ==
  \/ DetectInAppBrowser
  \/ \E p \in Probes : RemoveProbe(p)

SpecProbes == InitProbes /\ [][NextProbes]_vars

(***************************************************************************)
(* SpecViewport: the detector called again after the window was resized,   *)
(* the screen changed or the display mode changed.  The detector reads     *)
(* window.outerWidth, innerWidth, outerHeight, innerHeight, screen.width   *)
(* and matchMedia anew at every call; last keeps the display mode the      *)
(* call found.                                                             *)
(***************************************************************************)
ViewportUserAgents ==
  {"Mozilla/5.0 (iPhone; CPU iPhone OS 17_0)",
   "Mozilla/5.0 (iPhone; CPU iPhone OS 17_0) Version/17.0 Mobile Safari/604.1",
   "Mozilla/5.0 (iPhone; CPU iPhone OS 17_0) FBAN/FB4A",
   "Mozilla/5.0 (iPhone; CPU iPhone OS 17_0) GSA/15.0",
   "Mozilla/5.0 (iPhone; CPU iPhone OS 17_0) Chrome/115.0 Mobile Safari/537.36",
   "Mozilla/5.0 (iPhone; CPU iPhone OS 17_0; wv) Chrome/115.0 Mobile Safari/537.36",
   "Mozilla/5.0 (Linux; Android 13)",
   "Mozilla/5.0 (Linux; Android 13) Chrome/115.0 Mobile Safari/537.36",
   "Mozilla/5.0 (Linux; Android 13; wv) Chrome/115.0 Mobile Safari/537.36",
   "Mozilla/5.0 (Linux; Android 13) Version/4.0 Chrome/115.0 Mobile Safari/537.36",
   "Mozilla/5.0 (Linux; Android 13) Chrome/115.0 Version/4.0",
   "Mozilla/5.0 (Linux; Android 13) Chrome/115.0 Mobile Safari/537.36 OPR/76.0",
   "Mozilla/5.0 (Windows NT 10.0) Chrome/115.0 Mobile Safari/537.36"}

InitViewport ==
  /\ last = NoCall
  /\ NoApp
  /\ InitBrowser
  /\ userAgent \in ViewportUserAgents

ViewportDetectInAppBrowser ==
  /\ last' = [op |-> "detectInAppBrowser", result |-> detectInAppBrowser,
              displayMode |-> displayMode]
  /\ dom' = updateDetectionInfo(userAgent)
  /\ UNCHANGED <<clip, env, memo, app>>

ViewportDetectWebView ==
  /\ last' = [op |-> "detectWebView", result |-> detectWebView(getUserAgent),
              displayMode |-> displayMode]
  /\ UNCHANGED <<clip, env, dom, memo, app>>

\* the window, the screen or the display mode is another one at the next call
ChangeViewport ==
  /\ \E g \in Geometries, m \in DisplayModes :
       /\ <<g.ow, g.iw, g.oh, g.ih, g.sw, m>> #
            <<outerWidth, innerWidth, outerHeight, innerHeight, screenWidth, displayMode>>
       /\ outerWidth' = g.ow /\ innerWidth' = g.iw
       /\ outerHeight' = g.oh /\ innerHeight' = g.ih
       /\ screenWidth' = g.sw
       /\ displayMode' = m
  /\ UNCHANGED <<clip, host, userAgent, braveHook, referrer, reactNativeWebView, dom,
                 last, memo, app>>

NextViewport ==
  \/ ViewportDetectInAppBrowser
  \/ ViewportDetectWebView
  \/ ChangeViewport

SpecViewport == InitViewport /\ [][NextViewport]_vars

(***************************************************************************)
(* Vocabulary of the properties: the page as the properties describe it.  *)
(***************************************************************************)
UA == toLowerCase(userAgent)
REF == toLowerCase(referrer)

GmailAppReferrer == "android-app://com.google.android.gm"

SafariPattern(ua) ==
  /\ REGEX_SAFARI(ua) /\ ~REGEX_CHROME(ua) /\ ~REGEX_CRIOS(ua)
  /\ ~REGEX_WV_TOKEN(ua) /\ ~REGEX_GSA_TOKEN(ua)

RegularBrowserPattern(ua) ==
  \/ SafariPattern(ua) \/ REGEX_EDGE(ua) \/ REGEX_FIREFOX(ua) \/ REGEX_OPERA(ua)
  \/ REGEX_DUCKDUCKGO(ua) \/ REGEX_BRAVE(ua) \/ REGEX_VIVALDI(ua)

KnownInAppToken(ua) == \E t \in KNOWN_IN_APP_BROWSERS : includes(ua, t)

\* the app tokens getBrowserName looks for before it tries Gmail
AppTokenBeforeGmail(ua) ==
  \E t \in {"gsa/", "fban", "fbav", "twitter", "instagram", "linkedinapp",
            "snapchat", "whatsapp", "line", "discord", "telegram"} : includes(ua, t)

Verdict(v) == last.op = "detectInAppBrowser" /\ last.result = v
Label(n) == last.op = "getBrowserName" /\ last.result = n
Called(op) == last.op = op

C2_RegularBrowserPrecedence ==
  (Called("detectInAppBrowser") /\ RegularBrowserPattern(UA)) => last.result = FALSE

C2_Witness ==
  /\ Verdict(FALSE)
  /\ REGEX_MOBILE(UA) /\ REGEX_CHROME(UA) /\ REGEX_EDGE(UA)
  /\ KnownInAppToken(UA) /\ REGEX_WV_TOKEN(UA)
  /\ REF = GmailAppReferrer
  /\ reactNativeWebView /\ ~braveHook

C3_DecidedBefore ==
  \/ REGEX_GSA_TOKEN(UA)
  \/ REGEX_GMAIL_REFERRER(REF)
  \/ (REGEX_CHROME(UA) /\ REGEX_WV_TOKEN(UA))
  \/ (/\ REGEX_ANDROID(UA) /\ REGEX_CHROME(UA)
      /\ (\/ reactNativeWebView \/ REGEX_VERSION_PATTERN(UA)
          \/ REGEX_ANDROID_APP_REFERRER(REF)))

C4_Case ==
  /\ REGEX_ANDROID(UA) /\ REGEX_CHROME(UA) /\ ~RegularBrowserPattern(UA)
  /\ REF = GmailAppReferrer

C4_AsStated ==
  /\ (Called("detectInAppBrowser") /\ C4_Case) => last.result = TRUE
  /\ (Called("getBrowserName") /\ C4_Case /\ ~AppTokenBeforeGmail(UA))
       => last.result = "Gmail"

(***************************************************************************)
(* C4  Mail referrer sufficiency, amended: the same, in every environment  *)
(* without the Brave capability hook (any geometry, any screen width,      *)
(* standalone or not, React Native bridge or not); the label is 'Gmail'    *)
(* with or without the hook.                                               *)
(***************************************************************************)
C4_MailReferrerSufficiency ==
  /\ (Called("detectInAppBrowser") /\ C4_Case /\ ~braveHook) => last.result = TRUE
  /\ (Called("getBrowserName") /\ C4_Case /\ ~AppTokenBeforeGmail(UA))
       => last.result = "Gmail"

C4_Witness ==
  /\ Called("detectInAppBrowser") /\ last.result = TRUE
  /\ C4_Case /\ ~braveHook
  /\ ~REGEX_WV_TOKEN(UA) /\ ~REGEX_GSA_TOKEN(UA) /\ ~KnownInAppToken(UA)
  /\ displayMode = "standalone"
  /\ hasBrowserUI /\ ~hasNormalScreenLayout

(***************************************************************************)
(* C5  Known-app token inclusion, as stated: for a user agent that matches *)
(* the mobile pattern, contains a KNOWN_IN_APP_BROWSERS substring and      *)
(* matches no regular-browser pattern, with the display mode not           *)
(* standalone, detectInAppBrowser returns true, whatever the other tokens, *)
(* the Chrome token included.                                              *)
(***************************************************************************)
C5_Case ==
  /\ REGEX_MOBILE(UA) /\ KnownInAppToken(UA) /\ ~RegularBrowserPattern(UA)
  /\ displayMode # "standalone"

C5_AsStated ==
  (Called("detectInAppBrowser") /\ C5_Case) => last.result = TRUE

(***************************************************************************)
(* C5  Known-app token inclusion, amended: the same, in a page with a      *)
(* window and without the Brave capability hook, for a user agent that has *)
(* no Chrome token or has the wv or the gsa/ token with it.                *)
(***************************************************************************)
C5_KnownAppTokenInclusion ==
  (/\ Called("detectInAppBrowser") /\ C5_Case
   /\ isWindowAvailable /\ ~braveHook
   /\ (~REGEX_CHROME(UA) \/ REGEX_WV_TOKEN(UA) \/ REGEX_GSA_TOKEN(UA)))
    => last.result = TRUE

C5_Witness ==
  /\ Verdict(TRUE)
  /\ C5_Case /\ isWindowAvailable /\ ~braveHook
  /\ REGEX_IOS(UA) /\ includes(UA, "fban")
  /\ ~REGEX_CHROME(UA) /\ ~REGEX_WV_TOKEN(UA) /\ ~REGEX_GSA_TOKEN(UA)
  /\ REF = "" /\ ~reactNativeWebView
  /\ displayMode = "browser"

(***************************************************************************)
(* C6  Google Search App, as stated: for a mobile user agent with the      *)
(* Chrome token and the gsa/ token and no regular-browser pattern,         *)
(* detectInAppBrowser returns true and getBrowserName returns              *)
(* 'Google App', for every referrer and every environment.                 *)
(***************************************************************************)
C6_Case ==
  /\ REGEX_MOBILE(UA) /\ REGEX_CHROME(UA) /\ REGEX_GSA_TOKEN(UA)
  /\ ~RegularBrowserPattern(UA)

C6_AsStated ==
  /\ (Called("detectInAppBrowser") /\ C6_Case) => last.result = TRUE
  /\ (Called("getBrowserName") /\ C6_Case) => last.result = "Google App"

(***************************************************************************)
(* C6  Google Search App, amended: detectInAppBrowser returns true for     *)
(* every referrer and every environment that has a window and no Brave     *)
(* capability hook; getBrowserName returns 'Google App' in every           *)
(* environment.                                                            *)
(***************************************************************************)
C6_GoogleSearchApp ==
  /\ (Called("detectInAppBrowser") /\ C6_Case /\ isWindowAvailable /\ ~braveHook)
       => last.result = TRUE
  /\ (Called("getBrowserName") /\ C6_Case) => last.result = "Google App"

C6_Witness ==
  /\ Called("detectInAppBrowser") /\ last.result = TRUE
  /\ C6_Case /\ isWindowAvailable /\ ~braveHook
  /\ REGEX_IOS(UA) /\ ~REGEX_WV_TOKEN(UA)
  /\ REF = ""
  /\ displayMode = "standalone"

(***************************************************************************)
(* C7  Conservative default, as stated: for an Android user agent with the *)
(* Chrome token and no wv token, no gsa/ token, no Version/ pattern and no *)
(* regular-browser pattern, with an empty referrer and no React Native     *)
(* bridge, detectInAppBrowser returns false for every geometry, and        *)
(* getBrowserName returns 'Chrome' when the user agent has no in-app app   *)
(* token.                                                                  *)
(***************************************************************************)
C7_Case ==
  /\ REGEX_ANDROID(UA) /\ REGEX_CHROME(UA)
  /\ ~REGEX_WV_TOKEN(UA) /\ ~REGEX_GSA_TOKEN(UA) /\ ~REGEX_VERSION_PATTERN(UA)
  /\ ~RegularBrowserPattern(UA)
  /\ REF = "" /\ ~reactNativeWebView

C7_AsStated ==
  /\ (Called("detectInAppBrowser") /\ C7_Case) => last.result = FALSE
  /\ (Called("getBrowserName") /\ C7_Case /\ ~KnownInAppToken(UA))
       => last.result = "Chrome"

(***************************************************************************)
(* C7  Conservative default, amended: detectInAppBrowser returns false as  *)
(* stated; getBrowserName returns 'Chrome' when the user agent has no      *)
(* in-app app token and the Brave capability hook is absent.               *)
(***************************************************************************)
C7_ConservativeDefault ==
  /\ (Called("detectInAppBrowser") /\ C7_Case) => last.result = FALSE
  /\ (Called("getBrowserName") /\ C7_Case /\ ~KnownInAppToken(UA) /\ ~braveHook)
       => last.result = "Chrome"

C7_Witness ==
  /\ Called("detectInAppBrowser") /\ last.result = FALSE
  /\ C7_Case /\ ~KnownInAppToken(UA) /\ ~braveHook
  /\ outerWidth # {} /\ outerWidth = innerWidth /\ outerHeight = innerHeight
  /\ ~hasNormalScreenLayout
  /\ displayMode = "browser"

(***************************************************************************)
(* C8  Desktop Firefox, as stated: for a desktop user agent with 'firefox' *)
(* and no in-app app token and no edg, DuckDuckGo or Brave substring,      *)
(* detectInAppBrowser returns false and getBrowserName returns 'Firefox'   *)
(* in every environment, the Brave hook and the React Native bridge        *)
(* included.                                                               *)
(***************************************************************************)
C8_Case ==
  /\ REGEX_FIREFOX(UA) /\ ~REGEX_MOBILE(UA)
  /\ ~KnownInAppToken(UA)
  /\ ~REGEX_EDGE(UA) /\ ~REGEX_DUCKDUCKGO(UA) /\ ~REGEX_BRAVE(UA)

C8_AsStated ==
  /\ (Called("detectInAppBrowser") /\ C8_Case) => last.result = FALSE
  /\ (Called("getBrowserName") /\ C8_Case) => last.result = "Firefox"

(***************************************************************************)
(* C8  Desktop Firefox, amended: detectInAppBrowser returns false in every *)
(* environment; getBrowserName returns 'Firefox' in every environment      *)
(* without the Brave capability hook, for a user agent that has neither    *)
(* the chrome nor the crios token.                                         *)
(***************************************************************************)
C8_DesktopFirefox ==
  /\ (Called("detectInAppBrowser") /\ C8_Case) => last.result = FALSE
  /\ (Called("getBrowserName") /\ C8_Case /\ ~braveHook
        /\ ~REGEX_CHROME(UA) /\ ~REGEX_CRIOS(UA))
       => last.result = "Firefox"

C8_Witness ==
  /\ Called("getBrowserName") /\ last.result = "Firefox"
  /\ C8_Case /\ ~braveHook /\ reactNativeWebView
  /\ REGEX_WV_TOKEN(UA)

(***************************************************************************)
(* C9  React Native bridge, as stated: for a user agent that matches the   *)
(* mobile pattern (Android or iOS) and no regular-browser pattern, with no *)
(* Brave hook, detectInAppBrowser returns true whenever the React Native   *)
(* WebView bridge is present, for every referrer and every other           *)
(* environment value.                                                      *)
(***************************************************************************)
C9_AsStated ==
  (/\ Called("detectInAppBrowser")
   /\ (REGEX_ANDROID(UA) \/ REGEX_IOS(UA)) /\ ~RegularBrowserPattern(UA)
   /\ ~braveHook /\ reactNativeWebView)
    => last.result = TRUE

(***************************************************************************)
(* C9  React Native bridge, amended: the same for an Android user agent    *)
(* only, and, when the user agent has no Chrome token, only while the      *)
(* display mode is not standalone.  On iOS the bridge is not read.         *)
(***************************************************************************)
C9_ReactNativeBridge ==
  (/\ Called("detectInAppBrowser")
   /\ REGEX_ANDROID(UA) /\ ~RegularBrowserPattern(UA)
   /\ ~braveHook /\ reactNativeWebView
   /\ (REGEX_CHROME(UA) \/ displayMode # "standalone"))
    => last.result = TRUE

C9_Witness ==
  /\ Verdict(TRUE)
  /\ REGEX_ANDROID(UA) /\ ~RegularBrowserPattern(UA)
  /\ ~braveHook /\ reactNativeWebView
  /\ ~REGEX_CHROME(UA) /\ ~REGEX_WV_TOKEN(UA) /\ ~REGEX_VERSION_PATTERN(UA)
  /\ ~KnownInAppToken(UA)
  /\ REF = "" /\ displayMode = "absent"

(***************************************************************************)
(* C10  Brave capability hook: whenever navigator.brave.isBrave is a       *)
(* function, detectInAppBrowser returns false and detectWebView returns    *)
(* false, for every user agent, referrer and other environment value.      *)
(***************************************************************************)
C10_BraveHook ==
  ((Called("detectInAppBrowser") \/ Called("detectWebView")) /\ braveHook)
    => last.result = FALSE

C10_Witness ==
  /\ Called("detectWebView") /\ last.result = FALSE
  /\ braveHook /\ reactNativeWebView
  /\ REGEX_ANDROID(UA) /\ REGEX_WV_TOKEN(UA) /\ REGEX_GSA_TOKEN(UA)
  /\ KnownInAppToken(UA) /\ ~RegularBrowserPattern(UA)
  /\ isWindowAvailable

C12_NoGlobalSideEffects ==
  [][last'.op = "detectInAppBrowser" => (dom' = dom /\ env' = env)]_vars

(***************************************************************************)
(* C13  Safe default on missing input: with no navigator, window or        *)
(* document (empty user agent and referrer), detectInAppBrowser returns    *)
(* false and getBrowserName returns 'Unknown Browser'; and whatever the    *)
(* user agent, the referrer and the probes that are absent, no call of     *)
(* detectInAppBrowser, detectGmailApp, detectWebView or getBrowserName     *)
(* throws.  Stated of the TypeScript and of the JavaScript detector.       *)
(***************************************************************************)
C13_SafeDefault ==
  /\ (host = "node" /\ Called("detectInAppBrowser")) => last.result = FALSE
  /\ (host = "node" /\ Called("getBrowserName")) => last.result = "Unknown Browser"
  /\ last.op \in {"js.detectInAppBrowser", "js.detectGmailApp", "js.detectWebView",
                  "js.getBrowserName"}
       => ~last.result.threw
  /\ (host = "node" /\ Called("js.detectInAppBrowser")) => last.result = Returns(FALSE)
  /\ (host = "node" /\ Called("js.getBrowserName"))
       => last.result = Returns("Unknown Browser")

(***************************************************************************)
(* C14  Absence is a negative signal: for every user agent and referrer,   *)
(* making a probe absent (the viewport dimensions, the screen width, the   *)
(* display-mode query, the React Native bridge, the Brave hook) never      *)
(* changes the verdict of detectInAppBrowser from false to true.           *)
(* As stated this fails: without window dimensions there is "no browser    *)
(* UI" and Chrome with an android-app referrer is a Custom Tab, without    *)
(* matchMedia the page is not standalone, and without navigator.brave the  *)
(* browser is not Brave.  It holds of the screen width and of the bridge.  *)
(***************************************************************************)
\* the verdict was false with the probe p and is true without it
C14_FalseToTrue(p) ==
  /\ last.op = "detectInAppBrowser" /\ last.result = TRUE
  /\ memo = {<<userAgent, referrer, p, FALSE>>}
  /\ ~ProbePresent(p)

C14_AsStated == \A p \in Probes : ~C14_FalseToTrue(p)

C14_AbsentScreenOrBridge ==
  \A p \in {"screen.width", "ReactNativeWebView"} : ~C14_FalseToTrue(p)

\* without the bridge the verdict went from true to false
C14_Witness ==
  /\ last.op = "detectInAppBrowser" /\ last.result = FALSE
  /\ memo = {<<userAgent, referrer, "ReactNativeWebView", TRUE>>}
  /\ ~reactNativeWebView

(***************************************************************************)
(* C15  Label resolver order: getBrowserName returns the label of the      *)
(* first rule that matches, in the order gsa/, fban or fbav, twitter,      *)
(* instagram, linkedinapp, snapchat, whatsapp, line, discord, telegram,    *)
(* detectGmailApp, Edge, DuckDuckGo, Brave (token or hook), crios, Chrome  *)
(* without wv, Firefox, Safari, Opera, Vivaldi, detectWebView, and         *)
(* 'Unknown Browser' when none matches.                                    *)
(***************************************************************************)
C15_Rules ==
  LET ua == UA
  IN << <<"Google App", includes(ua, "gsa/")>>,
        <<"Facebook", includes(ua, "fban") \/ includes(ua, "fbav")>>,
        <<"Twitter", includes(ua, "twitter")>>,
        <<"Instagram", includes(ua, "instagram")>>,
        <<"LinkedIn", includes(ua, "linkedinapp")>>,
        <<"Snapchat", includes(ua, "snapchat")>>,
        <<"WhatsApp", includes(ua, "whatsapp")>>,
        <<"Line", includes(ua, "line")>>,
        <<"Discord", includes(ua, "discord")>>,
        <<"Telegram", includes(ua, "telegram")>>,
        <<"Gmail", detectGmailApp>>,
        <<"Edge", REGEX_EDGE(ua)>>,
        <<"DuckDuckGo", REGEX_DUCKDUCKGO(ua)>>,
        <<"Brave", REGEX_BRAVE(ua) \/ hasBraveFeature>>,
        <<"Chrome", REGEX_CRIOS(ua)>>,
        <<"Chrome", REGEX_CHROME(ua) /\ ~REGEX_WV_TOKEN(ua)>>,
        <<"Firefox", REGEX_FIREFOX(ua)>>,
        <<"Safari", SafariPattern(ua)>>,
        <<"Opera", REGEX_OPERA(ua)>>,
        <<"Vivaldi", REGEX_VIVALDI(ua)>>,
        <<"WebView", detectWebView(ua)>> >>

C15_LabelOrder ==
  (Called("getBrowserName") /\ isNavigatorAvailable) =>
    LET rules == C15_Rules
        matching == {i \in DOMAIN rules : rules[i][2]}
    IN /\ matching = {} => last.result = "Unknown Browser"
       /\ \A i \in matching :
            (\A j \in matching : i <= j) => last.result = rules[i][1]
       /\ last.result \in {rules[i][1] : i \in DOMAIN rules} \cup {"Unknown Browser"}

\* Edge names Chrome as well; an Instagram page that names Twitter is Twitter
C15_Witness ==
  /\ Called("getBrowserName") /\ last.result = "Edge"
  /\ REGEX_EDGE(UA) /\ REGEX_CHROME(UA) /\ ~REGEX_WV_TOKEN(UA)
  /\ ~REGEX_DUCKDUCKGO(UA) /\ ~hasBraveFeature

(***************************************************************************)
(* C16  Bowser-based detector, referrer first: detectInAppBrowser returns  *)
(* true whenever the lowercased referrer starts with an entry of           *)
(* REFERRER_PREFIXES or contains an entry of REFERRER_HOSTS, whatever the  *)
(* user agent (including none) and whatever the platform type.             *)
(* As stated this fails without a user agent: the empty user agent         *)
(* returns false before the referrer is read.  It holds whenever there is  *)
(* a user agent, from the argument or from the navigator.                  *)
(***************************************************************************)
LibCalled == last.op = "lib.detectInAppBrowser"

\* the referrer of the last call is one of a known mail provider
C16_KnownReferrer ==
  last.referrer \in LoweredReferrers /\ KnownReferrerTable[last.referrer]

C16_AsStated == (LibCalled /\ C16_KnownReferrer) => last.result = TRUE

C16_ReferrerFirst ==
  (LibCalled /\ C16_KnownReferrer /\ last.ua # "") => last.result = TRUE

\* a desktop user agent without any token, a page that comes from Gmail
C16_Witness ==
  /\ LibCalled /\ last.result = TRUE
  /\ last.referrer = "https://mail.google.com/mail/u/0/"
  /\ last.ua = "Mozilla/5.0 (Windows NT 10.0; Win64; x64) Chrome/115.0 Safari/537.36"
  /\ getPlatformType(last.ua) = {"desktop"}

(***************************************************************************)
(* C17  Bowser-based detector, desktop is never in-app: whenever the       *)
(* parsed platform type of the user agent is desktop, detectInAppBrowser   *)
(* returns false, for every referrer and every token in the user agent.    *)
(***************************************************************************)
C17_DesktopNeverInApp ==
  (LibCalled /\ last.ua # "" /\ getPlatformType(last.ua) = {"desktop"})
    => last.result = FALSE

(***************************************************************************)
(* C18  Bowser-based detector, overrides isolate the call from the ambient *)
(* page: when userAgentOverride and referrerOverride are passed, two calls *)
(* with the same arguments return the same result for any values of        *)
(* navigator.userAgent and document.referrer, including when an override   *)
(* is the empty string.                                                    *)
(***************************************************************************)
C18_OverridesIsolate ==
  LibCalled =>
    \A call \in memo :
      (call[1] = last.userAgentOverride /\ call[2] = last.referrerOverride)
        => call[4] = last.result

(***************************************************************************)
(* C19  Banner follows the verdict: after any sequence of detectBrowser    *)
(* calls, updateDetectionUI retries and dismiss clicks, the document has   *)
(* at most one '.in-app-warning' banner, a banner is present only if the   *)
(* controller's isInApp is true, and a detection that sets isInApp to      *)
(* false removes any existing banner.                                      *)
(***************************************************************************)
C19_BannerFollowsVerdict ==
  /\ banners <= 1
  /\ banners > 0 => isInApp
  /\ (last.op = "detectBrowser" /\ last.result = FALSE) => banners = 0

\* a detection found a banner, set isInApp to false and removed the banner
C19_Witness ==
  /\ last.op = "detectBrowser" /\ last.before = 1
  /\ ~isInApp /\ banners = 0

(***************************************************************************)
(* C20  Chrome Custom Tabs heuristic: for an Android user agent with the   *)
(* Chrome token and no regular-browser pattern, no gsa/ token, no wv       *)
(* token and no Version/ pattern, with no React Native bridge and a        *)
(* referrer that starts with android-app:// but is not the Gmail package,  *)
(* detectInAppBrowser returns true if and only if neither outerWidth -     *)
(* innerWidth > 30 nor outerHeight - innerHeight > 30; the screen width    *)
(* and the standalone flag do not change the result.                       *)
(***************************************************************************)
C20_Case ==
  /\ Called("detectInAppBrowser") /\ host = "browser"
  /\ REGEX_ANDROID(UA) /\ REGEX_CHROME(UA)
  /\ ~RegularBrowserPattern(UA)
  /\ ~REGEX_GSA_TOKEN(UA) /\ ~REGEX_WV_TOKEN(UA) /\ ~REGEX_VERSION_PATTERN(UA)
  /\ ~reactNativeWebView
  /\ startsWith(REF, "android-app://") /\ ~startsWith(REF, GmailAppReferrer)

\* outerWidth - innerWidth > 30 or outerHeight - innerHeight > 30
C20_BrowserChrome ==
  \/ \E ow \in outerWidth, iw \in innerWidth : ow - iw > 30
  \/ \E oh \in outerHeight, ih \in innerHeight : oh - ih > 30

C20_AsStated == C20_Case => (last.result = ~C20_BrowserChrome)

C20_ChromeCustomTabs ==
  (C20_Case /\ ~braveHook) => (last.result = ~C20_BrowserChrome)

\* a difference of exactly 30 is no browser chrome: a Custom Tab, also in
\* standalone display mode and on a wide screen
C20_Witness ==
  /\ C20_Case /\ ~braveHook /\ last.result = TRUE
  /\ outerWidth = {390} /\ innerWidth = {360}
  /\ displayMode = "standalone" /\ screenWidth = {440}

(***************************************************************************)
(* C21  detectWebView rule priority: (1) a user agent that matches         *)
(* DuckDuckGo, Edge, Brave, Firefox, Opera or Vivaldi, or the Brave hook,  *)
(* gives false, even with the React Native bridge or a wv token; (2) else  *)
(* the React Native bridge gives true for any user agent; (3) else a wv    *)
(* word token gives true regardless of geometry, screen width and          *)
(* standalone flag.                                                        *)
(* As stated (3) fails where there is a navigator and no window (a         *)
(* worker): detectWebView returns false before any rule.  The rules hold   *)
(* in this order whenever window and navigator exist.                      *)
(***************************************************************************)
C21_Excluded ==
  \/ REGEX_DUCKDUCKGO(UA) \/ REGEX_EDGE(UA) \/ REGEX_BRAVE(UA) \/ REGEX_FIREFOX(UA)
  \/ REGEX_OPERA(UA) \/ REGEX_VIVALDI(UA) \/ hasBraveFeature

C21_AsStated ==
  Called("detectWebView") =>
    /\ C21_Excluded => last.result = FALSE
    /\ (~C21_Excluded /\ reactNativeWebView) => last.result = TRUE
    /\ (~C21_Excluded /\ ~reactNativeWebView /\ REGEX_WV_TOKEN(UA))
         => last.result = TRUE

C21_RulePriority ==
  Called("detectWebView") =>
    /\ C21_Excluded => last.result = FALSE
    /\ (isWindowAvailable /\ ~C21_Excluded /\ reactNativeWebView)
         => last.result = TRUE
    /\ (isWindowAvailable /\ ~C21_Excluded /\ ~reactNativeWebView
          /\ REGEX_WV_TOKEN(UA)) => last.result = TRUE

\* Opera inside a WebView with a wv token and the bridge: not a WebView
C21_Witness ==
  /\ Called("detectWebView") /\ last.result = FALSE
  /\ REGEX_OPERA(UA) /\ REGEX_WV_TOKEN(UA) /\ reactNativeWebView /\ ~braveHook

(***************************************************************************)
(* C22  Version/ ordering heuristic: for an Android user agent that is not *)
(* an excluded regular browser, with no React Native bridge and no wv      *)
(* token, detectWebView returns true when the user agent matches the       *)
(* Version/ pattern and either has no Chrome/ pattern or the first chrome/ *)
(* comes after the first version/, for every geometry and standalone       *)
(* value; it returns false when chrome/ comes before version/ and when     *)
(* there is no Version/ pattern.                                           *)
(* As stated this fails without a window (a worker), where the answer is   *)
(* false for every user agent; it holds wherever window and navigator      *)
(* exist.                                                                  *)
(***************************************************************************)
C22_Case ==
  /\ Called("detectWebView")
  /\ REGEX_ANDROID(UA) /\ ~C21_Excluded
  /\ ~reactNativeWebView /\ ~REGEX_WV_TOKEN(UA)

C22_VersionBeforeChrome ==
  /\ REGEX_VERSION_PATTERN(UA)
  /\ \/ ~REGEX_CHROME_PATTERN(UA)
     \/ indexOf(UA, "chrome/") > indexOf(UA, "version/")

C22_AsStated == C22_Case => (last.result = C22_VersionBeforeChrome)

C22_VersionOrdering ==
  (C22_Case /\ isWindowAvailable) => (last.result = C22_VersionBeforeChrome)

\* Version/ then Chrome/ in a window with browser UI, in standalone mode
C22_Witness ==
  /\ C22_Case /\ isWindowAvailable /\ last.result = TRUE
  /\ REGEX_CHROME_PATTERN(UA)
  /\ outerWidth = {391} /\ displayMode = "standalone"

(***************************************************************************)
(* C23  Gmail sub-detector: detectGmailApp returns false for every user    *)
(* agent that is neither Android nor iOS; otherwise it returns true        *)
(* exactly when the referrer matches the Gmail referrer pattern, or the    *)
(* user agent has the gsa/ token, or the user agent is Android with the    *)
(* Chrome token and the wv word token and detectWebView returns true.      *)
(* As stated this fails without a document (a worker): a user agent with   *)
(* the gsa/ token gets false.  It holds wherever document and navigator    *)
(* exist.                                                                  *)
(***************************************************************************)
C23_Expected ==
  /\ REGEX_ANDROID(UA) \/ REGEX_IOS(UA)
  /\ \/ REGEX_GMAIL_REFERRER(REF)
     \/ REGEX_GSA_TOKEN(UA)
     \/ /\ REGEX_ANDROID(UA) /\ REGEX_CHROME(UA) /\ REGEX_WV_TOKEN(UA)
        /\ detectWebView(UA)

C23_AsStated == Called("detectGmailApp") => (last.result = C23_Expected)

C23_GmailSubDetector ==
  (Called("detectGmailApp") /\ isDocumentAvailable /\ isNavigatorAvailable)
    => (last.result = C23_Expected)

\* an Android Chrome with a wv token that is Opera: detectWebView says no,
\* and so does detectGmailApp
C23_Witness ==
  /\ Called("detectGmailApp") /\ last.result = FALSE
  /\ isDocumentAvailable
  /\ REGEX_ANDROID(UA) /\ REGEX_CHROME(UA) /\ REGEX_WV_TOKEN(UA)
  /\ ~REGEX_GSA_TOKEN(UA) /\ ~REGEX_GMAIL_REFERRER(REF)
  /\ REGEX_OPERA(UA)

(***************************************************************************)
(* C24  iOS verdict ignores geometry: for an iOS user agent (iphone, ipad  *)
(* or ipod, no android token) and every referrer, two calls of             *)
(* detectInAppBrowser return the same verdict whatever outerWidth,         *)
(* outerHeight, innerWidth, innerHeight and screen.width were at each of   *)
(* them (the display mode being the same at both).                         *)
(***************************************************************************)
C24_IOS == REGEX_IOS(UA) /\ ~REGEX_ANDROID(UA)

C24_IOSIgnoresGeometry ==
  [][(/\ C24_IOS
      /\ last.op = "detectInAppBrowser" /\ last'.op = "detectInAppBrowser"
      /\ last'.displayMode = last.displayMode)
       => last'.result = last.result]_vars

\* an iPhone in-app browser asked again in a window that now shows browser UI
C24_Witness ==
  /\ C24_IOS /\ Verdict(TRUE)
  /\ REGEX_CHROME(UA) /\ isAndroidAppReferrer(getReferrer)
  /\ outerWidth = {391} /\ innerWidth = {360}
  /\ dom["ow"] = "360"

(***************************************************************************)
(* C27  detectWebView does not depend on geometry: two calls of            *)
(* detectWebView on the same user agent return the same result whatever    *)
(* the window sizes, the screen width and the display mode were (present   *)
(* or absent) at each of them; and an Android Chrome user agent without    *)
(* wv token, without Version/ pattern and without React Native bridge      *)
(* gets false at every geometry.                                           *)
(***************************************************************************)
C27_PlainAndroidChrome ==
  /\ REGEX_ANDROID(UA) /\ REGEX_CHROME(UA)
  /\ ~REGEX_WV_TOKEN(UA) /\ ~REGEX_VERSION_PATTERN(UA) /\ ~reactNativeWebView

C27_GeometryIndependent ==
  [][/\ (last.op = "detectWebView" /\ last'.op = "detectWebView")
          => last'.result = last.result
     /\ (last'.op = "detectWebView" /\ C27_PlainAndroidChrome)
          => last'.result = FALSE]_vars

\* a plain Android Chrome asked in a window without any sign of browser UI,
\* after a verdict taken in a window that had browser UI
C27_Witness ==
  /\ Called("detectWebView") /\ last.result = FALSE
  /\ C27_PlainAndroidChrome /\ ~C21_Excluded
  /\ outerWidth = {360} /\ innerWidth = {360} /\ screenWidth = {}
  /\ last.displayMode = "absent"
  /\ dom["ow"] = "391"

(***************************************************************************)
(* C25  Bowser-based detector, full decision: for a non-empty user agent   *)
(* whose referrer matches no known prefix or host, detectInAppBrowser      *)
(* returns true if and only if the parsed platform type is mobile or       *)
(* tablet and the lowercased user agent contains an entry of IN_APP_TOKENS *)
(* or WEBVIEW_TOKENS; for every other platform type it returns false; with *)
(* no user agent it returns false.  The user agent and the referrer are    *)
(* the ones the call works on (last.ua, last.referrer).                    *)
(***************************************************************************)
C25_MobileLike == getPlatformType(last.ua) \in {{"mobile"}, {"tablet"}}

C25_HasToken == TokenTable[last.ua].inApp \/ TokenTable[last.ua].webView

C25_FullDecision ==
  LibCalled =>
    IF last.ua = "" THEN last.result = FALSE
    ELSE ~C16_KnownReferrer => (last.result = (C25_MobileLike /\ C25_HasToken))

\* the Outlook desktop client: an outlook token, no platform type
C25_Witness ==
  /\ LibCalled /\ last.result = FALSE
  /\ last.ua # "" /\ ~C16_KnownReferrer
  /\ C25_HasToken
  /\ getPlatformType(last.ua) = {}

(***************************************************************************)
(* C28  Verdict and label agree: whenever detectInAppBrowser returns true, *)
(* getBrowserName on the same page returns an in-app label and never a     *)
(* regular-browser label or 'Unknown Browser'.  The calls leave the page   *)
(* as it is, so the verdict that goes with a label is the one the          *)
(* detector gives in the state where the label was returned.               *)
(***************************************************************************)
C28_InAppLabels ==
  {"Google App", "Facebook", "Twitter", "Instagram", "LinkedIn", "Snapchat",
   "WhatsApp", "Line", "Discord", "Telegram", "Gmail", "WebView"}

C26_Order == <<"clipboard", "execCommand", "prompt">>

C26_Rank(m) == CHOOSE i \in DOMAIN C26_Order : C26_Order[i] = m

C26_FallbackChain ==
  /\ \A i, j \in DOMAIN copy.tried :
       i < j => C26_Rank(copy.tried[i]) < C26_Rank(copy.tried[j])
  /\ \A i \in DOMAIN copy.tried :
       \A m \in copy.succeeded : C26_Rank(m) >= C26_Rank(copy.tried[i])
  /\ "prompt" \in {copy.tried[i] : i \in DOMAIN copy.tried}
       => ("execCommand" \in {copy.tried[i] : i \in DOMAIN copy.tried})
  /\ Cardinality(copy.succeeded) <= 1
  /\ copy.result \in {"none", "pending", "true", "false"}
  /\ copy.result = "true" <=> copy.succeeded # {}
  /\ (copy.pc = "idle" /\ copy.result # "none") => copy.result \in {"true", "false"}
  /\ "prompt" \in {copy.tried[i] : i \in DOMAIN copy.tried} => copy.result = "false"

\* the Clipboard API rejected, execCommand returned false, the prompt was shown
C26_Witness ==
  /\ copy.tried = <<"clipboard", "execCommand", "prompt">>
  /\ copy.result = "false"
  /\ button.text = "Shown to Copy"

(***************************************************************************)
(* C29  Copy feedback is always undone: after any sequence of copies on    *)
(* the same button, once every pending restore timer has fired the text    *)
(* and the background of the button are what they were before the first    *)
(* copy.  The code does not do this: a copy made while the feedback of the *)
(* one before is showing takes "Copied!" and the green background for the  *)
(* original, and its timer, the last to fire, puts them back.              *)
(***************************************************************************)
C29_FeedbackUndone ==
  (copy.pc = "idle" /\ button.timers = <<>>)
    => (button.text = OriginalText /\ button.background = OriginalBackground)

(***************************************************************************)
(* C30  Status rendering retry terminates: updateDetectionUI sets its      *)
(* retry timer only while the #detection-status element is missing, one    *)
(* timer at most per invocation, and the controller eventually has no      *)
(* pending retry timer, whether or not the element ever appears.  The last *)
(* part fails when the element never appears: every retry sets the next.   *)
(* With the element there, the pending retries render and are gone.        *)
(***************************************************************************)
C30_AsStated == (controller # "none") ~> (timers = 0)

C30_OneRetryWhileMissing ==
  [][/\ timers' > timers => (~statusElement /\ timers' = timers + 1)
     /\ statusElement => (statusElement' /\ timers' <= timers)]_vars

C30_RetryTerminates ==
  /\ C30_OneRetryWhileMissing
  /\ statusElement ~> (timers = 0)

\* an in-app page whose element is there: the status is rendered (the banner
\* is shown) and no retry is pending
C30_Witness ==
  /\ controller # "none" /\ statusElement /\ timers = 0
  /\ last.op = "detectBrowser" /\ last.result = TRUE
  /\ banners = 1

====
